---- MODULE Spec2Model ----
(***************************************************************************)
(* Sync pipeline of proton-drive-sync: the job queue (src/src/jobs.ts),    *)
(* the task pool (processor code in src/src/cli/service/types.ts) and the  *)
(* change translator (src/src/sync/engine.ts) over the SQLite tables       *)
(* sync_jobs, file_hashes and node_mapping; the signal bus                  *)
(* (src/src/signals.ts) over the table signals.                            *)
(*                                                                         *)
(* Paths are sequences of path components (<<"w","d","a">> is /w/d/a), so  *)
(* that dirname, basename and "lies below" are computed, not assumed.      *)
(* Time is in whole seconds.                                               *)
(***************************************************************************)
EXTENDS Integers, Sequences, FiniteSets, TLC

VARIABLES
    sync_jobs,        \* rows of table sync_jobs
    nextId,           \* AUTOINCREMENT counter of sync_jobs.id
    file_hashes,      \* table file_hashes: localPath -> contentHash
    node_mapping,     \* table node_mapping: localPath -> [nodeUid, parentNodeUid, isDirectory]
    now,              \* wall clock (Date.now()), seconds
    syncConcurrency,  \* processor: let syncConcurrency
    activeTasks,      \* processor: Map jobId -> promise (a task id)
    tasks,            \* the processJob invocations that have not settled yet
    nextTid,          \* identity of the next promise
    drain,            \* position of drainQueue: "idle", "loop", "await" or "done"
    drainAwait,       \* the promises the pending Promise.race of drainQueue watches
    dryRun,           \* options.dryRun of the running process
    lastOp,           \* the last operation performed and what it returned/emitted
    signals,          \* rows of table signals: [id, signal]
    nextSignalId,     \* AUTOINCREMENT counter of signals.id
    listeners,        \* signalEmitter: names with listenerCount > 0
    pollingInterval,  \* signals.ts: let pollingInterval (TRUE: the interval is set)
    invocations,      \* history: row id -> times a listener was invoked for it
    flags,            \* rows of table flags (names)
    running,          \* startJobProcessorLoop: let running
    timeoutId,        \* startJobProcessorLoop: let timeoutId (TRUE: a timer is armed)
    stop,             \* position of stop(): "idle", "waiting", "done" or "timeout"
    stopAwait,        \* the promises waitForActiveTasks collected
    oneShot,          \* position of runOneShotSync ("off": not running)
    watchman,         \* the watcher connection is open
    totalChanges,     \* runOneShotSync: const totalChanges
    localTree,        \* the names that exist below the watch root
    remote,           \* the remote paths that exist below the remote folder
    opened,           \* promises whose createNode has read its local path
    served            \* promises whose remote call the service has performed

vars == <<sync_jobs, nextId, file_hashes, node_mapping, now, syncConcurrency,
          activeTasks, tasks, nextTid, drain, drainAwait, dryRun, lastOp,
          signals, nextSignalId, listeners, pollingInterval, invocations,
          flags, running, timeoutId, stop, stopAwait,
          oneShot, watchman, totalChanges,
          localTree, remote, opened, served>>

storeVars == <<sync_jobs, nextId, file_hashes, node_mapping>>
poolVars == <<syncConcurrency, activeTasks, tasks, nextTid, drain, drainAwait>>
busVars == <<signals, nextSignalId, listeners, pollingInterval, invocations>>
\* the state of the signal bus and of the orchestrator
loopVars == <<flags, running, timeoutId, stop, stopAwait>>
oneShotVars == <<oneShot, watchman, totalChanges>>
\* the local tree and the remote tree
treeVars == <<localTree, remote, opened, served>>
ctlVars == <<busVars, loopVars, oneShotVars, treeVars>>

(***************************************************************************)
(* Bounds of the model.                                                    *)
(***************************************************************************)
\* rows sync_jobs may hold (enqueueJob is not offered beyond it)
MaxJobs == 2
\* processJob invocations one behaviour may start
MaxSpawns == 3
\* largest value setSyncConcurrency is called with
MaxConcurrency == 2
\* the clock stops advancing here
MaxTime == 1
\* inode numbers of the events of a batch
MaxIno == 2
\* events in one watcher batch
MaxBatch == 4
MaxAttempts == 13
MaxRetryAttempts == 3
\* signal rows sent, and listener invocations counted per row
MaxSignals == 2
MaxInvocations == 2
\* rows and clock values of the queue that getNextPendingJob is applied to
MaxQueueRows == 3
MaxQueueTime == 2
\* local changes made while the daemon runs
MaxLocalChanges == 3

(***************************************************************************)
(* Enumerations (db/schema.ts, engine.ts).                                 *)
(***************************************************************************)
PENDING == "PENDING"
PROCESSING == "PROCESSING"
SYNCED == "SYNCED"
BLOCKED == "BLOCKED"
SyncJobStatus == {PENDING, PROCESSING, SYNCED, BLOCKED}

CREATE == "CREATE"
UPDATE == "UPDATE"
DELETE == "DELETE"
RENAME == "RENAME"
MOVE == "MOVE"
SyncEventType == {CREATE, UPDATE, DELETE, RENAME, MOVE}

\* SQL NULL / JS null for text columns and hashes
NULL == "null"
\* SQL NULL for a path column (no path is the empty sequence)
NoPath == <<>>

(***************************************************************************)
(* Path helpers (node:path).                                               *)
(***************************************************************************)
join(root, name) == root \o name

dirname(p) == IF Len(p) = 0 THEN p ELSE SubSeq(p, 1, Len(p) - 1)

basename(p) == IF Len(p) = 0 THEN "" ELSE p[Len(p)]

\* q lies strictly below directory p
IsUnderPath(p, q) == Len(q) > Len(p) /\ SubSeq(q, 1, Len(p)) = p

(***************************************************************************)
(* Table sync_jobs and its unique index.                                   *)
(***************************************************************************)
\* mutant: the index was dropped and never recreated
NoUniqueIndex(rows, row) == FALSE

\* CREATE UNIQUE INDEX idx_sync_jobs_local_remote ON sync_jobs (local_path, remote_path):
\* inserting row is refused when a row with the same pair exists
idx_sync_jobs_local_remote(rows, row) ==
    \E r \in rows : r.localPath = row.localPath /\ r.remotePath = row.remotePath

\* the row enqueueJob's INSERT builds: the columns it names, the others at
\* their column default (NULL for content_hash, old_local_path, old_remote_path)
NewJobRow(id, params, t) ==
    [id |-> id,
     eventType |-> params.eventType,
     localPath |-> params.localPath,
     remotePath |-> params.remotePath,
     status |-> PENDING,
     retryAt |-> t,
     nRetries |-> 0,
     lastError |-> NULL,
     contentHash |-> NULL,
     oldLocalPath |-> NoPath,
     oldRemotePath |-> NoPath]

(***************************************************************************)
(* A database state is a record db = [sync_jobs, nextId, file_hashes,      *)
(* node_mapping, error]; the queue functions map db to db.  error is the   *)
(* exception raised ("none" when the statement succeeded).                 *)
(***************************************************************************)
CurrentDb ==
    [sync_jobs |-> sync_jobs, nextId |-> nextId, file_hashes |-> file_hashes,
     node_mapping |-> node_mapping, error |-> "none"]

\* mutant: enqueueJob as an upsert (ON CONFLICT DO UPDATE)
enqueueJobUpsert(db, params, dry, t) ==
    IF dry \/ db.error # "none" THEN db
    ELSE IF idx_sync_jobs_local_remote(db.sync_jobs, params)
    THEN [db EXCEPT !.sync_jobs =
            {IF r.localPath = params.localPath /\ r.remotePath = params.remotePath
             THEN NewJobRow(r.id, params, t) ELSE r : r \in db.sync_jobs}]
    ELSE [db EXCEPT !.sync_jobs = @ \cup {NewJobRow(db.nextId, params, t)},
                    !.nextId = @ + 1]

\* enqueueJob(params, dryRun): a plain INSERT; a refused insert raises and
\* leaves the table as it was
enqueueJob(db, params, dry, t) ==
    IF dry \/ db.error # "none" THEN db
    ELSE IF idx_sync_jobs_local_remote(db.sync_jobs, params)
    THEN [db EXCEPT !.error = "ConflictError"]
    ELSE [db EXCEPT !.sync_jobs = @ \cup {NewJobRow(db.nextId, params, t)},
                    !.nextId = @ + 1]

\* the PENDING rows that are due at time t
DueJobs(rows, t) == {r \in rows : r.status = PENDING /\ r.retryAt <= t}

\* mutant: no row is ever returned
getNextPendingJobNone(rows, t) == {}

\* mutant: ORDER BY retry_at DESC
getNextPendingJobLatest(rows, t) ==
    LET due == DueJobs(rows, t)
    IN  IF due = {} THEN {}
        ELSE {CHOOSE r \in due : \A o \in due :
                 r.retryAt > o.retryAt \/ (r.retryAt = o.retryAt /\ r.id <= o.id)}

\* mutant: the status filter forgotten
getNextPendingJobAnyStatus(rows, t) ==
    LET due == {r \in rows : r.retryAt <= t}
    IN  IF due = {} THEN {}
        ELSE {CHOOSE r \in due : \A o \in due :
                 r.retryAt < o.retryAt \/ (r.retryAt = o.retryAt /\ r.id <= o.id)}

\* getNextPendingJob(): WHERE status = PENDING AND retry_at <= now
\* ORDER BY retry_at LIMIT 1 (ties in rowid order); {} is "no row"
getNextPendingJob(rows, t) ==
    LET due == DueJobs(rows, t)
    IN  IF due = {} THEN {}
        ELSE {CHOOSE r \in due : \A o \in due :
                 r.retryAt < o.retryAt \/ (r.retryAt = o.retryAt /\ r.id <= o.id)}

\* mutant: the status is not written
markJobSyncedNoop(rows, jobId, dry) == rows

\* markJobSynced(jobId, dryRun): UPDATE ... WHERE id = jobId
markJobSynced(rows, jobId, dry) ==
    IF dry THEN rows
    ELSE {IF r.id = jobId THEN [r EXCEPT !.status = SYNCED, !.lastError = NULL]
          ELSE r : r \in rows}

\* markJobBlocked(jobId, error, dryRun)
markJobBlocked(rows, jobId, error, dry) ==
    IF dry THEN rows
    ELSE {IF r.id = jobId THEN [r EXCEPT !.status = BLOCKED, !.lastError = error]
          ELSE r : r \in rows}

(***************************************************************************)
(* Retry schedule (jobs.ts).                                               *)
(***************************************************************************)
RETRY_DELAYS_SEC == <<1, 4, 16, 64, 256, 1024, 4096, 16384, 65536, 262144, 604800>>

MAX_RETRIES == Len(RETRY_DELAYS_SEC)

NETWORK_RETRY_CAP_INDEX == 4

Min(a, b) == IF a <= b THEN a ELSE b

Max(a, b) == IF a >= b THEN a ELSE b

\* the error messages the remote client and the processor produce in the model
NetworkMessages == {"ECONNRESET"}
ReuploadMessages == {"reupload needed"}
OtherMessages == {"quota exceeded", "Node mapping not found", "Parent folder not found"}
RemoteErrors == {"ECONNRESET", "reupload needed", "quota exceeded"}

\* mutant: no message is a network error
neverNetworkError(error) == FALSE

\* isNetworkError(error)
isNetworkError(error) == error \in NetworkMessages

NETWORK == "NETWORK"
REUPLOAD_NEEDED == "REUPLOAD_NEEDED"
OTHER_CATEGORY == "OTHER"

\* categorizeError(message).category
categorizeError(error) ==
    IF isNetworkError(error) THEN NETWORK
    ELSE IF error \in ReuploadMessages THEN REUPLOAD_NEEDED
    ELSE OTHER_CATEGORY

\* mutant: one retry more than the schedule has entries
maxRetriesPlusOne(category) == MAX_RETRIES + 1

\* categorizeError(message).maxRetries, read for OTHER and REUPLOAD_NEEDED
maxRetries(category) == MAX_RETRIES

REUPLOAD_DELETE_RECREATE_THRESHOLD == 2

\* mutant: the delay index of a network error is not capped
RetryDelaysUncapped(nRetries, network) ==
    LET delayIndex == Min(nRetries, Len(RETRY_DELAYS_SEC) - 1)
        baseDelaySec == RETRY_DELAYS_SEC[delayIndex + 1]
        jitterSec == baseDelaySec \div 4
    IN  {Max(1, baseDelaySec - jitterSec), Max(1, baseDelaySec + jitterSec)}

\* mutant: the jitter is half of the base delay
RetryDelaysWideJitter(nRetries, network) ==
    LET effectiveRetries == IF network THEN Min(nRetries, NETWORK_RETRY_CAP_INDEX)
                            ELSE nRetries
        delayIndex == Min(effectiveRetries, Len(RETRY_DELAYS_SEC) - 1)
        baseDelaySec == RETRY_DELAYS_SEC[delayIndex + 1]
        jitterSec == baseDelaySec \div 2
    IN  {Max(1, baseDelaySec - jitterSec), Max(1, baseDelaySec + jitterSec)}

\* the delays scheduleRetry can draw: baseDelay * (1 +- JITTER_FACTOR), at
\* least 1 s; the two ends of the jitter interval
RetryDelays(nRetries, network) ==
    LET effectiveRetries == IF network THEN Min(nRetries, NETWORK_RETRY_CAP_INDEX)
                            ELSE nRetries
        delayIndex == Min(effectiveRetries, Len(RETRY_DELAYS_SEC) - 1)
        baseDelaySec == RETRY_DELAYS_SEC[delayIndex + 1]
        jitterSec == baseDelaySec \div 4
    IN  {Max(1, baseDelaySec - jitterSec), Max(1, baseDelaySec + jitterSec)}

\* scheduleRetry(jobId, nRetries, error, isNetworkError, dryRun) with drawn delay
scheduleRetry(rows, jobId, nRetries, error, network, dry, t, delaySec) ==
    IF dry THEN rows
    ELSE LET newRetries == IF network
                           THEN Min(nRetries + 1, NETWORK_RETRY_CAP_INDEX + 1)
                           ELSE nRetries + 1
         IN  {IF r.id = jobId
              THEN [r EXCEPT !.nRetries = newRetries, !.retryAt = t + delaySec,
                             !.lastError = error]
              ELSE r : r \in rows}

(***************************************************************************)
(* Node mapping and stored hashes (tables of migration 0006; the accessor  *)
(* functions are called by engine.ts and the processor by localPath).      *)
(***************************************************************************)
alwaysMapped(nm, localPath) == TRUE

\* getNodeMapping(localPath) finds a row
HasNodeMapping(nm, localPath) == localPath \in DOMAIN nm

\* deleteNodeMapping(localPath)
deleteNodeMapping(nm, localPath) == [p \in DOMAIN nm \ {localPath} |-> nm[p]]

\* deleteNodeMappingsUnderPath(dirPath)
deleteNodeMappingsUnderPath(nm, dirPath) ==
    [p \in {q \in DOMAIN nm : ~IsUnderPath(dirPath, q)} |-> nm[p]]

\* setNodeMapping(localPath, nodeUid, parentNodeUid, isDirectory)
setNodeMapping(nm, localPath, nodeUid, parentNodeUid, isDirectory) ==
    [p \in DOMAIN nm \cup {localPath} |->
        IF p = localPath
        THEN [nodeUid |-> nodeUid, parentNodeUid |-> parentNodeUid,
              isDirectory |-> isDirectory]
        ELSE nm[p]]

\* updateNodeMappingPath(oldLocalPath, newLocalPath, newParentNodeUid):
\* the row of oldLocalPath moves to newLocalPath; NULL keeps the parent
\* mutant: the row of the new path is written, the row of the old path stays
updateNodeMappingPathKeepsOld(nm, oldLocalPath, newLocalPath, newParentNodeUid) ==
    IF oldLocalPath \notin DOMAIN nm THEN nm
    ELSE [p \in DOMAIN nm \cup {newLocalPath} |->
            IF p = newLocalPath
            THEN [nm[oldLocalPath] EXCEPT !.parentNodeUid =
                     IF newParentNodeUid = NULL THEN @ ELSE newParentNodeUid]
            ELSE nm[p]]

updateNodeMappingPath(nm, oldLocalPath, newLocalPath, newParentNodeUid) ==
    IF oldLocalPath \notin DOMAIN nm THEN nm
    ELSE [p \in (DOMAIN nm \ {oldLocalPath}) \cup {newLocalPath} |->
            IF p = newLocalPath
            THEN [nm[oldLocalPath] EXCEPT !.parentNodeUid =
                     IF newParentNodeUid = NULL THEN @ ELSE newParentNodeUid]
            ELSE nm[p]]

\* getStoredHash(localPath), NULL when there is no row
getStoredHash(fh, localPath) == IF localPath \in DOMAIN fh THEN fh[localPath] ELSE NULL

\* deleteStoredHash(localPath)
deleteStoredHash(fh, localPath) == [p \in DOMAIN fh \ {localPath} |-> fh[p]]

\* deleteStoredHashesUnderPath(dirPath)
deleteStoredHashesUnderPath(fh, dirPath) ==
    [p \in {q \in DOMAIN fh : ~IsUnderPath(dirPath, q)} |-> fh[p]]

\* setJobError(jobId, message, dryRun)
setJobError(rows, jobId, error, dry) ==
    IF dry THEN rows
    ELSE {IF r.id = jobId THEN [r EXCEPT !.lastError = error] ELSE r : r \in rows}

(***************************************************************************)
(* The task pool (processor).                                              *)
(*                                                                         *)
(* A task is one invocation of processJob: [tid, job, pc, error, parent].  *)
(* job is the row as getNextPendingJob returned it; pc is the await the    *)
(* invocation is suspended at:                                             *)
(*   "remote"          deleteNode / createNode / relocateNode              *)
(*   "parent"          getParentFolderUid (MOVE)                           *)
(*   "recreateDelete"  deleteNode of deleteAndRecreateNode                 *)
(*   "recreateCreate"  createNode of deleteAndRecreateNode                 *)
(*   "finally"         the body has returned; the promise's finally        *)
(*                     callback has not run yet                            *)
(***************************************************************************)
NewTask(tid, job, pc) ==
    [tid |-> tid, job |-> job, pc |-> pc, error |-> NULL, parent |-> NULL]

\* Map.set(key, value)
MapSet(m, key, value) == [k \in DOMAIN m \cup {key} |-> IF k = key THEN value ELSE m[k]]

\* Map.delete(key)
MapDelete(m, key) == [k \in DOMAIN m \ {key} |-> m[k]]

\* mutant: a failed job is always scheduled again, never blocked
FailureOutcomesAlwaysRetry(rows, job, error, dry, t) ==
    {[rows |-> scheduleRetry(setJobError(rows, job.id, error, dry), job.id,
                             job.nRetries, error, FALSE, dry, t, d),
      recover |-> FALSE] : d \in RetryDelays(job.nRetries, FALSE)}

\* the catch block of processJob up to its first await: the rows it leaves
\* and whether it goes on to deleteAndRecreateNode
FailureOutcomes(rows, job, error, dry, t) ==
    LET category == categorizeError(error)
        network == category = NETWORK
        retried == {[rows |-> scheduleRetry(setJobError(rows, job.id, error, dry), job.id,
                                            job.nRetries, error, network, dry, t, d),
                     recover |-> FALSE] : d \in RetryDelays(job.nRetries, network)}
        blocked == {[rows |-> markJobBlocked(setJobError(rows, job.id, error, dry),
                                             job.id, error, dry),
                     recover |-> FALSE]}
    IN  IF category = OTHER_CATEGORY /\ job.nRetries >= maxRetries(category) THEN blocked
        ELSE IF category = REUPLOAD_NEEDED
        THEN IF job.nRetries >= maxRetries(category) THEN blocked
             ELSE IF job.nRetries >= REUPLOAD_DELETE_RECREATE_THRESHOLD
             THEN {[rows |-> rows, recover |-> TRUE]}
             ELSE retried
        ELSE retried

\* processJob(client, job, dryRun) from its call to its first await, and
\* activeTasks.set(jobId, taskPromise).  ps = [sync_jobs, node_mapping,
\* tasks, activeTasks, nextTid, handed]; the result is the set of states
\* the call can leave (the retry delay is drawn at random).
StartProcessJob(ps, job, dry, t) ==
    LET tid == ps.nextTid
        base == [ps EXCEPT !.nextTid = @ + 1,
                           !.activeTasks = MapSet(@, job.id, tid),
                           !.handed = Append(@, job.id)]
        suspended(pc) == {[base EXCEPT !.tasks = @ \cup {NewTask(tid, job, pc)}]}
        failed(error) ==
            {[base EXCEPT !.sync_jobs = f.rows,
                          !.tasks = @ \cup {[NewTask(tid, job,
                                IF f.recover THEN "recreateDelete" ELSE "finally")
                                EXCEPT !.error = error]}]
             : f \in FailureOutcomes(ps.sync_jobs, job, error, dry, t)}
    IN  IF job.eventType \in {DELETE, CREATE, UPDATE} THEN suspended("remote")
        ELSE IF ~HasNodeMapping(ps.node_mapping, job.oldLocalPath)
        THEN failed("Node mapping not found")
        ELSE IF job.eventType = MOVE THEN suspended("parent")
        ELSE IF ~dry THEN suspended("remote")
        ELSE {[base EXCEPT !.sync_jobs = markJobSynced(@, job.id, dry),
                           !.tasks = @ \cup {NewTask(tid, job, "finally")}]}

\* mutant: the capacity computed without the tasks already active
AvailableSlotsIgnoringActive(concurrency, active) == concurrency

\* const availableSlots = syncConcurrency - activeTasks.size
AvailableSlots(concurrency, active) == concurrency - Cardinality(DOMAIN active)

\* the for loop of processAvailableJobs from iteration i on
RECURSIVE SpawnLoop(_, _, _, _, _)
SpawnLoop(ps, i, availableSlots, dry, t) ==
    IF i >= availableSlots THEN {ps}
    ELSE LET next == getNextPendingJob(ps.sync_jobs, t)
         IN  IF next = {} THEN {ps}
             ELSE UNION {SpawnLoop(ps2, i + 1, availableSlots, dry, t)
                         : ps2 \in UNION {StartProcessJob(ps, job, dry, t) : job \in next}}

\* processAvailableJobs(client, dryRun)
processAvailableJobs(ps, concurrency, dry, t) ==
    LET availableSlots == AvailableSlots(concurrency, ps.activeTasks)
    IN  IF availableSlots <= 0 THEN {ps}
        ELSE SpawnLoop(ps, 0, availableSlots, dry, t)

CurrentPool ==
    [sync_jobs |-> sync_jobs, node_mapping |-> node_mapping, tasks |-> tasks,
     activeTasks |-> activeTasks, nextTid |-> nextTid, handed |-> <<>>]

(***************************************************************************)
(* Inputs of the model.                                                    *)
(***************************************************************************)
EmptyMap == [p \in {} |-> NULL]

\* the configuration: one sync dir /w with remote root r
Config == [sync_dirs |-> <<[source_path |-> <<"w">>, remote_root |-> <<"r">>]>>]

WatchRoot == <<"w">>

\* local paths under the watch root /w and their remote paths
LocalPaths == {<<"w", "a">>, <<"w", "b">>}
RemotePathsOf(localPath) == {localPath, <<"bk">> \o localPath}
Hashes == {"h1", "h2"}

\* what createNode returns on success
RemoteNodes ==
    {[nodeUid |-> "uid-1", parentNodeUid |-> "p-1", isDirectory |-> FALSE]}
ParentUids == {"p-1", "p-2"}

\* the parameters enqueueJob is called with
EnqueueParams ==
    {[eventType |-> e, localPath |-> lp, remotePath |-> lp, contentHash |-> "h1"]
     : e \in {CREATE, DELETE, RENAME}, lp \in LocalPaths}

(***************************************************************************)
(* Actions of the queue and the task pool.                                 *)
(***************************************************************************)
InitStore ==
    /\ sync_jobs = {}
    /\ nextId = 1
    /\ file_hashes = EmptyMap
    /\ node_mapping = EmptyMap

InitPool ==
    /\ syncConcurrency \in 1..MaxConcurrency
    /\ activeTasks = EmptyMap
    /\ tasks = {}
    /\ nextTid = 1
    /\ drainAwait = {}

\* the signal bus of a process that has sent and registered nothing
InitBus ==
    /\ signals = {}
    /\ nextSignalId = 1
    /\ listeners = {}
    /\ pollingInterval = FALSE
    /\ invocations = EmptyMap

\* the job processor loop before startJobProcessorLoop
InitLoop ==
    /\ flags = {}
    /\ running = FALSE
    /\ timeoutId = FALSE
    /\ stop = "idle"
    /\ stopAwait = {}

\* no one-shot sync is running
InitOneShotOff ==
    /\ oneShot = "off"
    /\ watchman = FALSE
    /\ totalChanges = 0

\* the trees are not observed
InitTreeOff ==
    /\ localTree = {}
    /\ remote = {}
    /\ opened = {}
    /\ served = {}

InitCtl == InitBus /\ InitLoop /\ InitOneShotOff /\ InitTreeOff

\* the microtask queue is empty: no promise is waiting to run its finally
\* callback (microtasks run before the next timer, I/O or watcher callback)
NoMicrotask == \A task \in tasks : task.pc # "finally"

\* a call enqueueJob(params, dryRun)
EnqueueJob(params) ==
    /\ NoMicrotask
    /\ params.remotePath \in RemotePathsOf(params.localPath)
    /\ Cardinality(sync_jobs) < MaxJobs \/ idx_sync_jobs_local_remote(sync_jobs, params)
    /\ LET db == enqueueJob(CurrentDb, params, dryRun, now)
       IN  /\ sync_jobs' = db.sync_jobs
           /\ nextId' = db.nextId
           /\ lastOp' = [op |-> "enqueueJob", params |-> params, result |-> db.error]
    /\ UNCHANGED <<file_hashes, node_mapping, now, poolVars, dryRun>>
    /\ UNCHANGED ctlVars

\* mutant: every row goes back to PENDING
cleanupOrphanedJobsAll(rows, dry) ==
    IF dry THEN rows ELSE {[r EXCEPT !.status = PENDING] : r \in rows}

\* cleanupOrphanedJobs(dryRun): PROCESSING rows go back to PENDING
cleanupOrphanedJobs(rows, dry) ==
    IF dry THEN rows
    ELSE {IF r.status = PROCESSING THEN [r EXCEPT !.status = PENDING] ELSE r : r \in rows}

\* localPath is a configured sync dir or below one
InSyncDirs(localPath, config) ==
    \E i \in 1..Len(config.sync_dirs) :
        \/ localPath = config.sync_dirs[i].source_path
        \/ IsUnderPath(config.sync_dirs[i].source_path, localPath)

\* cleanupOrphanedHashes(tx): the rows outside all sync dirs are deleted
cleanupOrphanedHashes(fh, config) ==
    [p \in {q \in DOMAIN fh : InSyncDirs(q, config)} |-> fh[p]]

\* cleanupOrphanedNodeMappings(tx)
cleanupOrphanedNodeMappings(nm, config) ==
    [p \in {q \in DOMAIN nm : InSyncDirs(q, config)} |-> nm[p]]

\* the cleanup transaction of startup and of a sync_dirs change
Cleanup ==
    /\ NoMicrotask
    /\ sync_jobs' = cleanupOrphanedJobs(sync_jobs, dryRun)
    /\ file_hashes' = cleanupOrphanedHashes(file_hashes, Config)
    /\ node_mapping' = cleanupOrphanedNodeMappings(node_mapping, Config)
    /\ lastOp' = [op |-> "cleanup"]
    /\ UNCHANGED <<nextId, now, poolVars, dryRun>>
    /\ UNCHANGED ctlVars

\* setSyncConcurrency(value)
SetSyncConcurrency(value) ==
    /\ NoMicrotask
    /\ syncConcurrency' = value
    /\ lastOp' = [op |-> "setSyncConcurrency"]
    /\ UNCHANGED <<storeVars, now, activeTasks, tasks, nextTid, drain, drainAwait, dryRun>>
    /\ UNCHANGED ctlVars

\* time passes
AdvanceTime ==
    /\ NoMicrotask
    /\ now < MaxTime
    /\ now' = now + 1
    /\ lastOp' = [op |-> "time"]
    /\ UNCHANGED <<storeVars, poolVars, dryRun>>
    /\ UNCHANGED ctlVars

\* one tick of the poll loop: processAvailableJobs(client, dryRun); the
\* process starts at most maxSpawns invocations of processJob
PollTick(maxSpawns) ==
    /\ NoMicrotask
    /\ drain = "off"
    /\ \E ps \in processAvailableJobs(CurrentPool, syncConcurrency, dryRun, now) :
          /\ ps.nextTid <= maxSpawns + 1
          /\ sync_jobs' = ps.sync_jobs
          /\ tasks' = ps.tasks
          /\ activeTasks' = ps.activeTasks
          /\ nextTid' = ps.nextTid
          /\ lastOp' = [op |-> "processAvailableJobs", handed |-> ps.handed]
    /\ UNCHANGED <<nextId, file_hashes, node_mapping, now, syncConcurrency, drain,
                   drainAwait, dryRun>>
    /\ UNCHANGED ctlVars

Tick == PollTick(MaxSpawns)

Range(m) == {m[k] : k \in DOMAIN m}

\* one iteration of the while loop of drainQueue, up to its await or break;
\* the clock may have moved on when the loop looks at the queue again
DrainIterate ==
    /\ NoMicrotask
    /\ drain = "loop"
    /\ \E ps1 \in processAvailableJobs(CurrentPool, syncConcurrency, dryRun, now),
          t2 \in {now, Min(now + 1, MaxTime)} :
          LET next == IF DOMAIN ps1.activeTasks = {}
                      THEN getNextPendingJob(ps1.sync_jobs, t2) ELSE {}
              direct == UNION {StartProcessJob(ps1, job, dryRun, t2) : job \in next}
          IN  \E ps \in (IF next = {} THEN {ps1} ELSE direct) :
                /\ ps.nextTid <= MaxSpawns + 1
                /\ sync_jobs' = ps.sync_jobs
                /\ tasks' = ps.tasks
                /\ activeTasks' = ps.activeTasks
                /\ nextTid' = ps.nextTid
                /\ now' = (IF DOMAIN ps1.activeTasks = {} THEN t2 ELSE now)
                /\ drain' = (IF DOMAIN ps.activeTasks = {} THEN "done" ELSE "await")
                /\ drainAwait' = Range(ps.activeTasks)
                /\ lastOp' = [op |-> "drainQueue", handed |-> ps.handed]
    /\ UNCHANGED <<nextId, file_hashes, node_mapping, syncConcurrency, dryRun>>
    /\ UNCHANGED ctlVars

\* await Promise.race(activeTasks.values()) returns: one of the promises settled
DrainResume ==
    /\ NoMicrotask
    /\ drain = "await"
    /\ \E tid \in drainAwait : \A task \in tasks : task.tid # tid
    /\ drain' = "loop"
    /\ drainAwait' = {}
    /\ lastOp' = [op |-> "drainQueue", handed |-> <<>>]
    /\ UNCHANGED <<storeVars, now, syncConcurrency, activeTasks, tasks, nextTid, dryRun>>
    /\ UNCHANGED ctlVars

\* .finally(() => activeTasks.delete(jobId)) of a task whose body returned
Settle(task) ==
    /\ tasks' = tasks \ {task}
    /\ activeTasks' = MapDelete(activeTasks, task.job.id)

Suspend(task, pc) ==
    /\ tasks' = (tasks \ {task}) \cup {[task EXCEPT !.pc = pc]}
    /\ UNCHANGED activeTasks

\* mutant: the mapping is written and the status is not
CompleteJobMappingOnly(task, nm) ==
    /\ node_mapping' = (IF dryRun THEN node_mapping ELSE nm)
    /\ sync_jobs' = sync_jobs
    /\ Settle(task)

\* the transaction that ends a successful job
CompleteJob(task, nm) ==
    /\ node_mapping' = (IF dryRun THEN node_mapping ELSE nm)
    /\ sync_jobs' = (IF dryRun /\ task.job.eventType = DELETE THEN sync_jobs
                     ELSE markJobSynced(sync_jobs, task.job.id, dryRun))
    /\ Settle(task)

\* mutant: the catch block swallows the error and leaves the row alone
FailJobIgnores(task, error) ==
    /\ UNCHANGED <<sync_jobs, node_mapping>>
    /\ Settle(task)

\* the catch block of processJob after a failed await
FailJob(task, error) ==
    \E f \in FailureOutcomes(sync_jobs, task.job, error, dryRun, now) :
        /\ sync_jobs' = f.rows
        /\ UNCHANGED node_mapping
        /\ IF f.recover
           THEN /\ tasks' = (tasks \ {task}) \cup
                              {[task EXCEPT !.pc = "recreateDelete", !.error = error]}
                /\ UNCHANGED activeTasks
           ELSE Settle(task)

\* mutant: a failed recovery blocks the job
FailRecreateBlocks(task, recreateError) ==
    /\ sync_jobs' = markJobBlocked(
                        setJobError(sync_jobs, task.job.id, recreateError, dryRun),
                        task.job.id, recreateError, dryRun)
    /\ UNCHANGED node_mapping
    /\ Settle(task)

\* the catch block around deleteAndRecreateNode
FailRecreate(task, recreateError) ==
    /\ \E d \in RetryDelays(task.job.nRetries, FALSE) :
          sync_jobs' = scheduleRetry(
              setJobError(sync_jobs, task.job.id, recreateError, dryRun),
              task.job.id, task.job.nRetries, recreateError, FALSE, dryRun, now, d)
    /\ UNCHANGED node_mapping
    /\ Settle(task)

\* the remote call a task awaits returns successfully
TaskAwaitReturns(task) ==
    /\ NoMicrotask
    /\ task \in tasks
    /\ task.pc \in {"remote", "parent", "recreateDelete", "recreateCreate"}
    /\ LET job == task.job
       IN  CASE task.pc = "remote" /\ job.eventType = DELETE ->
                    CompleteJob(task, deleteNodeMapping(node_mapping, job.localPath))
             [] task.pc = "remote" /\ job.eventType \in {CREATE, UPDATE} ->
                    \E n \in RemoteNodes :
                        CompleteJob(task, setNodeMapping(node_mapping, job.localPath,
                                        n.nodeUid, n.parentNodeUid, n.isDirectory))
             [] task.pc = "remote" /\ job.eventType = RENAME ->
                    CompleteJob(task, updateNodeMappingPath(node_mapping,
                                        job.oldLocalPath, job.localPath, NULL))
             [] task.pc = "remote" /\ job.eventType = MOVE ->
                    CompleteJob(task, updateNodeMappingPath(node_mapping,
                                        job.oldLocalPath, job.localPath, task.parent))
             [] task.pc = "parent" ->
                    \E uid \in ParentUids \cup {NULL} :
                        IF uid = NULL THEN FailJob(task, "Parent folder not found")
                        ELSE IF dryRun
                        THEN CompleteJob(task, node_mapping)
                        ELSE /\ tasks' = (tasks \ {task}) \cup
                                    {[task EXCEPT !.pc = "remote", !.parent = uid]}
                             /\ UNCHANGED <<activeTasks, sync_jobs, node_mapping>>
             [] task.pc = "recreateDelete" ->
                    /\ Suspend(task, "recreateCreate")
                    /\ UNCHANGED <<sync_jobs, node_mapping>>
             [] task.pc = "recreateCreate" ->
                    \E n \in RemoteNodes :
                        /\ node_mapping' =
                              (IF dryRun THEN node_mapping
                               ELSE setNodeMapping(node_mapping, job.localPath,
                                        n.nodeUid, n.parentNodeUid, n.isDirectory))
                        /\ sync_jobs' = markJobSynced(sync_jobs, job.id, dryRun)
                        /\ Settle(task)
    /\ lastOp' = [op |-> "task", outcome |-> "returned", pc |-> task.pc,
                  job |-> task.job.id, nRetries |-> task.job.nRetries, error |-> NULL]
    /\ UNCHANGED <<nextId, file_hashes, now, syncConcurrency, nextTid, drain, drainAwait,
                   dryRun>>
    /\ UNCHANGED ctlVars

\* the remote call a task awaits fails with message error
TaskAwaitThrows(task, error) ==
    /\ NoMicrotask
    /\ task \in tasks
    /\ task.pc \in {"remote", "parent", "recreateDelete", "recreateCreate"}
    /\ ~dryRun \/ task.pc = "parent"
    /\ IF task.pc \in {"recreateDelete", "recreateCreate"}
       THEN FailRecreate(task, error)
       ELSE FailJob(task, error)
    /\ lastOp' = [op |-> "task", outcome |-> "threw", pc |-> task.pc,
                  job |-> task.job.id, nRetries |-> task.job.nRetries, error |-> error]
    /\ UNCHANGED <<nextId, file_hashes, now, syncConcurrency, nextTid, drain, drainAwait,
                   dryRun>>
    /\ UNCHANGED ctlVars

\* the promise of a task whose body has returned settles
TaskFinally(task) ==
    /\ task \in tasks
    /\ task.pc = "finally"
    /\ Settle(task)
    /\ lastOp' = [op |-> "task", outcome |-> "settled", pc |-> task.pc,
                  job |-> task.job.id, nRetries |-> task.job.nRetries, error |-> NULL]
    /\ UNCHANGED <<storeVars, now, syncConcurrency, nextTid, drain, drainAwait, dryRun>>
    /\ UNCHANGED ctlVars

(***************************************************************************)
(* SpecExec: the queue and the task pool of one process, in watch mode     *)
(* (drain = "off", the poll loop ticks) or in one-shot mode (drainQueue).  *)
(***************************************************************************)
\* the failures the remote client produces in SpecExec
ExecErrors == {"ECONNRESET"}

InitExec ==
    /\ InitStore
    /\ InitPool
    /\ now = 0
    /\ drain \in {"off", "loop"}
    /\ dryRun = FALSE
    /\ lastOp = [op |-> "init"]
    /\ InitCtl

NextExec ==
    \/ \E params \in EnqueueParams : EnqueueJob(params)
    \/ \E value \in 1..MaxConcurrency : SetSyncConcurrency(value)
    \/ AdvanceTime
    \/ Cleanup
    \/ Tick
    \/ DrainIterate
    \/ DrainResume
    \/ \E task \in tasks : TaskAwaitReturns(task)
    \/ \E task \in tasks, error \in ExecErrors : TaskAwaitThrows(task, error)
    \/ \E task \in tasks : TaskFinally(task)

SpecExec == InitExec /\ [][NextExec]_vars

(***************************************************************************)
(* The change translator: handleFileChangeBatch of sync/engine.ts.         *)
(*                                                                         *)
(* A file change is [watchRoot, name, exists, new, type, ino, hash]; hash  *)
(* stands for the field content.sha1hex, NULL when the event has none.     *)
(***************************************************************************)
\* String.prototype.startsWith, on paths
startsWith(p, prefix) == Len(prefix) <= Len(p) /\ SubSeq(p, 1, Len(prefix)) = prefix

\* buildPaths(file, config)
buildPaths(file, config) ==
    LET found == {i \in 1..Len(config.sync_dirs) :
                     startsWith(file.watchRoot, config.sync_dirs[i].source_path)}
        remoteRoot == IF found = {} THEN <<>>
                      ELSE config.sync_dirs[CHOOSE i \in found :
                                               \A j \in found : i <= j].remote_root
        dirName == basename(file.watchRoot)
    IN  [localPath |-> join(file.watchRoot, file.name),
         remotePath |-> IF remoteRoot # <<>>
                        THEN remoteRoot \o <<dirName>> \o file.name
                        ELSE <<dirName>> \o file.name]

\* { ...file, ...buildPaths(file, config) }
FileChangeWithPaths(file, config) ==
    LET paths == buildPaths(file, config)
    IN  [watchRoot |-> file.watchRoot, name |-> file.name, exists |-> file.exists,
         new |-> file.new, type |-> file.type, ino |-> file.ino, hash |-> file.hash,
         localPath |-> paths.localPath, remotePath |-> paths.remotePath]

\* a Map<number, FileChangeWithPaths> is a sequence of entries [key, value]
\* in insertion order; set() on a present key replaces the value in place
InoMapHas(m, key) == \E i \in 1..Len(m) : m[i].key = key

InoMapGet(m, key) == m[CHOOSE i \in 1..Len(m) : m[i].key = key].value

InoMapSet(m, key, value) ==
    IF InoMapHas(m, key)
    THEN [i \in 1..Len(m) |-> IF m[i].key = key THEN [key |-> key, value |-> value]
                              ELSE m[i]]
    ELSE Append(m, [key |-> key, value |-> value])

\* for (const file of files) map.set(file.ino, file)
RECURSIVE ByIno(_, _)
ByIno(files, m) ==
    IF files = <<>> THEN m
    ELSE ByIno(Tail(files), InoMapSet(m, Head(files).ino, Head(files)))

\* mutant: no delete is ever matched with a create
matchNoRenames(deletesByIno, createsByIno) == <<>>

\* the matching loop: one {from, to} for every ino in both maps
matchRenames(deletesByIno, createsByIno) ==
    LET both == SelectSeq(deletesByIno, LAMBDA e : InoMapHas(createsByIno, e.key))
    IN  [i \in 1..Len(both) |->
            [from |-> both[i].value, to |-> InoMapGet(createsByIno, both[i].key)]]

\* the values left in a map after the matching loop deleted the matched keys
RemainingValues(m, matched) ==
    LET left == SelectSeq(m, LAMBDA e : e.key \notin matched)
    IN  [i \in 1..Len(left) |-> left[i].value]

\* mutant: RENAME whatever the parents are
alwaysRename(isSameParent) == RENAME

\* isSameParent ? SyncEventType.RENAME : SyncEventType.MOVE
renameEventType(isSameParent) == IF isSameParent THEN RENAME ELSE MOVE

\* mutant: the rows below a directory are kept
purgeFallbackPathOnly(db, from) ==
    [db EXCEPT !.file_hashes = deleteStoredHash(@, from.localPath),
               !.node_mapping = deleteNodeMapping(@, from.localPath)]

\* the purge of the DELETE + CREATE fallback
purgeFallback(db, from) ==
    LET fh == deleteStoredHash(db.file_hashes, from.localPath)
        nm == deleteNodeMapping(db.node_mapping, from.localPath)
    IN  [db EXCEPT
            !.file_hashes = IF from.type = "d"
                            THEN deleteStoredHashesUnderPath(fh, from.localPath) ELSE fh,
            !.node_mapping = IF from.type = "d"
                             THEN deleteNodeMappingsUnderPath(nm, from.localPath) ELSE nm]

\* the purge after the DELETE of a remaining delete
purgeDeleted(db, file) ==
    LET fh == deleteStoredHash(db.file_hashes, file.localPath)
        nm == deleteNodeMapping(db.node_mapping, file.localPath)
    IN  [db EXCEPT
            !.file_hashes = IF file.type = "d"
                            THEN deleteStoredHashesUnderPath(fh, file.localPath) ELSE fh,
            !.node_mapping = IF file.type = "d"
                             THEN deleteNodeMappingsUnderPath(nm, file.localPath) ELSE nm]

\* mutant: every update counts as changed
hashNeverUnchanged(storedHash, newHash) == FALSE

\* storedHash && storedHash === newHash
hashUnchanged(storedHash, newHash) == storedHash # NULL /\ storedHash = newHash

(***************************************************************************)
(* The transaction body works on ts = [db, emitted, pairs]: db is the      *)
(* database inside the transaction, emitted the parameters of the calls of *)
(* enqueueJob so far, pairs the matched pairs with the result of           *)
(* getNodeMapping(from.localPath).  Once a statement has raised            *)
(* (db.error # "none") the rest of the body does not run.                  *)
(***************************************************************************)
JobParams(eventType, file, contentHash, oldLocalPath, oldRemotePath) ==
    [eventType |-> eventType, localPath |-> file.localPath,
     remotePath |-> file.remotePath, contentHash |-> contentHash,
     oldLocalPath |-> oldLocalPath, oldRemotePath |-> oldRemotePath]

\* enqueueJob(params, dryRun, tx)
txEnqueueJob(ts, params, dry, t) ==
    IF ts.db.error # "none" THEN ts
    ELSE [ts EXCEPT !.db = enqueueJob(@, params, dry, t),
                    !.emitted = Append(@, params)]

\* one iteration of the loop over renames
processRename(ts, pair, dry, t) ==
    IF ts.db.error # "none" THEN ts
    ELSE
    LET from == pair.from
        to == pair.to
        isSameParent == dirname(from.localPath) = dirname(to.localPath)
        nodeMapping == HasNodeMapping(ts.db.node_mapping, from.localPath)
        seen == [ts EXCEPT !.pairs = Append(@, [from |-> from, to |-> to,
                                                 nodeMapping |-> nodeMapping])]
    IN  IF ~nodeMapping
        THEN LET deleted == txEnqueueJob(seen,
                                JobParams(DELETE, from, NULL, NoPath, NoPath), dry, t)
                 purged == IF deleted.db.error # "none" THEN deleted
                           ELSE [deleted EXCEPT !.db = purgeFallback(@, from)]
             IN  txEnqueueJob(purged, JobParams(CREATE, to, to.hash, NoPath, NoPath),
                              dry, t)
        ELSE txEnqueueJob(seen,
                 JobParams(renameEventType(isSameParent), to, to.hash,
                           from.localPath, from.remotePath), dry, t)

RECURSIVE processRenames(_, _, _, _)
processRenames(ts, renames, dry, t) ==
    IF renames = <<>> THEN ts
    ELSE processRenames(processRename(ts, Head(renames), dry, t), Tail(renames), dry, t)

\* the loop over the remaining deletes
RECURSIVE processDeletes(_, _, _, _)
processDeletes(ts, files, dry, t) ==
    IF files = <<>> THEN ts
    ELSE LET file == Head(files)
             deleted == txEnqueueJob(ts, JobParams(DELETE, file, NULL, NoPath, NoPath),
                                     dry, t)
             purged == IF deleted.db.error # "none" THEN deleted
                       ELSE [deleted EXCEPT !.db = purgeDeleted(@, file)]
         IN  processDeletes(purged, Tail(files), dry, t)

\* the loop over the remaining creates
RECURSIVE processCreates(_, _, _, _)
processCreates(ts, files, dry, t) ==
    IF files = <<>> THEN ts
    ELSE processCreates(
             txEnqueueJob(ts, JobParams(CREATE, Head(files), Head(files).hash,
                                        NoPath, NoPath), dry, t),
             Tail(files), dry, t)

\* the loop over the updates
RECURSIVE processUpdates(_, _, _, _)
processUpdates(ts, files, dry, t) ==
    IF files = <<>> THEN ts
    ELSE LET file == Head(files)
             storedHash == getStoredHash(ts.db.file_hashes, file.localPath)
             newHash == file.hash
             next == IF file.type = "d" THEN ts
                     ELSE IF hashUnchanged(storedHash, newHash) THEN ts
                     ELSE txEnqueueJob(ts, JobParams(UPDATE, file, newHash,
                                                     NoPath, NoPath), dry, t)
         IN  processUpdates(next, Tail(files), dry, t)

\* handleFileChangeBatch(files, config, dryRun), up to the end of the
\* transaction body
handleFileChangeBatch(db, files, config, dry, t) ==
    LET filesWithPaths == [i \in 1..Len(files) |-> FileChangeWithPaths(files[i], config)]
        deletes == SelectSeq(filesWithPaths, LAMBDA f : ~f.exists)
        creates == SelectSeq(filesWithPaths, LAMBDA f : f.exists /\ f.new)
        updates == SelectSeq(filesWithPaths, LAMBDA f : f.exists /\ ~f.new)
        deletesByIno == ByIno(deletes, <<>>)
        createsByIno == ByIno(creates, <<>>)
        renames == matchRenames(deletesByIno, createsByIno)
        matched == {renames[i].from.ino : i \in 1..Len(renames)}
        ts0 == [db |-> db, emitted |-> <<>>, pairs |-> <<>>]
        ts1 == processRenames(ts0, renames, dry, t)
        ts2 == processDeletes(ts1, RemainingValues(deletesByIno, matched), dry, t)
        ts3 == processCreates(ts2, RemainingValues(createsByIno, matched), dry, t)
    IN  IF Len(files) = 0 THEN ts0
        ELSE processUpdates(ts3, updates, dry, t)

(***************************************************************************)
(* Inputs of the translator.                                               *)
(***************************************************************************)
\* the names the watcher reports, relative to the watch root: two
\* directories and a file in each
Names == {<<"d">>, <<"d", "a">>, <<"e">>, <<"e", "a">>}
UpdatedNames == {<<"d">>, <<"d", "a">>}
TypeOf(name) == IF Len(name) = 1 THEN "d" ELSE "f"

LocalPathOf(name) == join(WatchRoot, name)

FileChange(name, exists, new, ino, hash) ==
    [watchRoot |-> WatchRoot, name |-> name, exists |-> exists, new |-> new,
     type |-> TypeOf(name), ino |-> ino, hash |-> hash]

\* a deleted path has no hash; a created file has hash h2; an updated file
\* has any hash; directories have none
FileChanges ==
    {FileChange(n, FALSE, FALSE, i, NULL) : n \in Names, i \in 1..MaxIno}
    \cup {FileChange(n, TRUE, TRUE, i, IF TypeOf(n) = "f" THEN "h2" ELSE NULL)
          : n \in Names, i \in 1..MaxIno}
    \cup UNION {{FileChange(n, TRUE, FALSE, 1, h)
                 : h \in IF TypeOf(n) = "f" THEN Hashes ELSE {NULL}}
                : n \in UpdatedNames}

\* one batch of the watcher: every name at most once, with the state the
\* path has when the batch is built, so nothing exists below a deleted path
Batches ==
    {files \in UNION {[1..n -> FileChanges] : n \in 0..MaxBatch} :
        \A i \in 1..Len(files), j \in 1..Len(files) :
            /\ (i # j => files[i].name # files[j].name)
            /\ (~files[i].exists /\ IsUnderPath(files[i].name, files[j].name))
                  => ~files[j].exists}

\* mutant: the writes made before a statement raised stay
transactionNoRollback(before, after) == after

\* db.transaction(body): the database after the body when it returned, the
\* database before it when a statement raised
transaction(before, after) == IF after.error = "none" THEN after ELSE before

\* the whole handler: the transaction commits, or rolls back when a
\* statement raised
CommitBatch(files) ==
    /\ NoMicrotask
    /\ LET ts == handleFileChangeBatch(CurrentDb, files, Config, dryRun, now)
           committed == transaction(CurrentDb, ts.db)
       IN  /\ sync_jobs' = committed.sync_jobs
           /\ nextId' = committed.nextId
           /\ file_hashes' = committed.file_hashes
           /\ node_mapping' = committed.node_mapping
           /\ lastOp' = [op |-> "handleFileChangeBatch", files |-> files,
                         pairs |-> ts.pairs, emitted |-> ts.emitted,
                         result |-> ts.db.error,
                         before |-> [file_hashes |-> file_hashes,
                                     node_mapping |-> node_mapping,
                                     nextId |-> nextId]]
    /\ now' = now + 1
    /\ UNCHANGED <<poolVars, dryRun>>

HandleFileChangeBatch(files) == CommitBatch(files) /\ UNCHANGED ctlVars

\* the row setNodeMapping wrote for a path
MappedNode(name) ==
    [nodeUid |-> "uid-1", parentNodeUid |-> "p-1", isDirectory |-> TypeOf(name) = "d"]

\* the store before the batch: /w/e/a is synced and has an UPDATE waiting or
\* none; /w/d and /w/d/a are mapped or not; /w/d/a has a stored hash or not
InitBatch ==
    /\ \E mapped \in SUBSET {<<"d">>, <<"d", "a">>} :
           node_mapping = [p \in {LocalPathOf(n) : n \in mapped \cup {<<"e", "a">>}}
                              |-> MappedNode(SubSeq(p, 2, Len(p)))]
    /\ \E hashed \in SUBSET {<<"d", "a">>} :
           file_hashes = [p \in {LocalPathOf(n) : n \in hashed \cup {<<"e", "a">>}}
                             |-> "h1"]
    /\ \E waiting \in BOOLEAN :
           /\ sync_jobs = IF waiting
                          THEN {NewJobRow(1, JobParams(UPDATE,
                                    FileChangeWithPaths(
                                        FileChange(<<"e", "a">>, TRUE, FALSE, 1, "h2"),
                                        Config),
                                    "h2", NoPath, NoPath), 0)}
                          ELSE {}
           /\ nextId = IF waiting THEN 2 ELSE 1
    /\ syncConcurrency = 1
    /\ activeTasks = EmptyMap
    /\ tasks = {}
    /\ nextTid = 1
    /\ drain = "off"
    /\ drainAwait = {}
    /\ now = 0
    /\ dryRun = FALSE
    /\ lastOp = [op |-> "init"]
    /\ InitCtl

\* the watcher delivers one batch per clock tick
NextBatch ==
    /\ now < MaxTime
    /\ \E files \in Batches : HandleFileChangeBatch(files)

SpecBatch == InitBatch /\ [][NextBatch]_vars

(***************************************************************************)
(* The retry policy: one job that is executed again and again.             *)
(*                                                                         *)
(* The pool runs one task at a time (syncConcurrency = 1), so that every   *)
(* execution of the job starts from the row its last failure left.  The    *)
(* clock jumps to the retryAt of the job when nothing else can happen.     *)
(* SpecNetwork: every failure is a NETWORK error; SpecOther: every failure *)
(* is an OTHER error; SpecRetry: any failure, from a row that has failed   *)
(* any number of times before; SpecRestart: the same, and the process may  *)
(* terminate at any point and start again.                                 *)
(***************************************************************************)
RetryPath == <<"w", "a">>

\* the node the path is mapped to before the job runs
OldNode == [nodeUid |-> "uid-0", parentNodeUid |-> "p-1", isDirectory |-> FALSE]

\* the row of the job after nRetries failures, due at time 0
RetryJob(eventType, nRetries, lastError) ==
    [NewJobRow(1, [eventType |-> eventType, localPath |-> RetryPath,
                   remotePath |-> RetryPath], 0)
        EXCEPT !.nRetries = nRetries, !.lastError = lastError]

\* the rows scheduleRetry can have left: NETWORK failures keep nRetries at
\* NETWORK_RETRY_CAP_INDEX + 1 or below, the processor blocks a job instead
\* of retrying it once nRetries has reached MAX_RETRIES
FailedRows ==
    {RetryJob(e, 0, NULL) : e \in {CREATE, DELETE}}
    \cup {RetryJob(e, n, m) : e \in {CREATE, DELETE}, n \in 1..MAX_RETRIES,
                              m \in {"reupload needed", "quota exceeded"}}
    \cup {RetryJob(e, n, m) : e \in {CREATE, DELETE},
                              n \in 1..(NETWORK_RETRY_CAP_INDEX + 1),
                              m \in NetworkMessages}
    \cup {RetryJob(RENAME, 0, NULL)}
    \cup {RetryJob(RENAME, n, "Node mapping not found") : n \in 1..MAX_RETRIES}

InitOneJob(rows) ==
    /\ \E r \in rows : sync_jobs = {r}
    /\ nextId = 2
    /\ file_hashes = EmptyMap
    /\ node_mapping \in {EmptyMap, [p \in {RetryPath} |-> OldNode]}
    /\ syncConcurrency = 1
    /\ activeTasks = EmptyMap
    /\ tasks = {}
    /\ nextTid = 1
    /\ drain = "off"
    /\ drainAwait = {}
    /\ now = 0
    /\ dryRun = FALSE
    /\ lastOp = [op |-> "init"]
    /\ InitCtl

\* the poll loop sleeps until the next PENDING job is due
WaitUntilDue ==
    /\ NoMicrotask
    /\ tasks = {}
    /\ \E r \in sync_jobs :
          /\ r.status = PENDING
          /\ r.retryAt > now
          /\ \A o \in sync_jobs : o.status = PENDING => r.retryAt <= o.retryAt
          /\ now' = r.retryAt
    /\ lastOp' = [op |-> "time"]
    /\ UNCHANGED <<storeVars, poolVars, dryRun>>
    /\ UNCHANGED ctlVars

\* the process terminates (crash or kill) and starts again: the tasks and
\* the pool are gone, the tables are as the last commit left them, and
\* startup runs the cleanup transaction before anything else
Restart ==
    /\ tasks' = {}
    /\ activeTasks' = EmptyMap
    /\ drainAwait' = {}
    /\ sync_jobs' = cleanupOrphanedJobs(sync_jobs, dryRun)
    /\ file_hashes' = cleanupOrphanedHashes(file_hashes, Config)
    /\ node_mapping' = cleanupOrphanedNodeMappings(node_mapping, Config)
    /\ lastOp' = [op |-> "restart", jobs |-> sync_jobs, running |-> tasks]
    /\ listeners' = {}
    /\ pollingInterval' = FALSE
    /\ running' = FALSE
    /\ timeoutId' = FALSE
    /\ stop' = "idle"
    /\ stopAwait' = {}
    /\ UNCHANGED <<nextId, now, syncConcurrency, nextTid, drain, dryRun>>
    /\ watchman' = FALSE
    /\ UNCHANGED <<signals, nextSignalId, invocations, flags, oneShot, totalChanges>>
    /\ UNCHANGED treeVars

InitNetwork == InitOneJob({RetryJob(e, 0, NULL) : e \in {CREATE, DELETE}})

NextNetwork ==
    \/ WaitUntilDue
    \/ PollTick(MaxAttempts)
    \/ \E task \in tasks : TaskAwaitReturns(task)
    \/ \E task \in tasks, error \in NetworkMessages : TaskAwaitThrows(task, error)

SpecNetwork == InitNetwork /\ [][NextNetwork]_vars

\* a RENAME job finds no mapping for its old path (the row has none) and
\* fails before its first remote call, with an OTHER error
InitOther == InitOneJob({RetryJob(e, 0, NULL) : e \in {CREATE, DELETE, RENAME}})

NextOther ==
    \/ WaitUntilDue
    \/ PollTick(MaxAttempts)
    \/ \E task \in tasks : TaskAwaitReturns(task)
    \/ \E task \in tasks : TaskAwaitThrows(task, "quota exceeded")
    \/ \E task \in tasks : TaskFinally(task)

SpecOther == InitOther /\ [][NextOther]_vars

InitRetry == InitOneJob(FailedRows)

NextRetry ==
    \/ WaitUntilDue
    \/ PollTick(MaxRetryAttempts)
    \/ \E task \in tasks : TaskAwaitReturns(task)
    \/ \E task \in tasks, error \in RemoteErrors : TaskAwaitThrows(task, error)
    \/ \E task \in tasks : TaskFinally(task)

SpecRetry == InitRetry /\ [][NextRetry]_vars

\* rows in status PROCESSING: the status is in the schema and the startup
\* cleanup exists for it; no function of jobs.ts writes it, so such a row
\* is one that an earlier run of a queue that leases its jobs left behind
ProcessingRows ==
    {[RetryJob(e, 0, NULL) EXCEPT !.status = PROCESSING] : e \in {CREATE, DELETE}}

InitRestart == InitOneJob(FailedRows \cup ProcessingRows)

NextRestart ==
    \/ WaitUntilDue
    \/ PollTick(MaxRetryAttempts)
    \/ Restart
    \/ \E task \in tasks : TaskAwaitReturns(task)
    \/ \E task \in tasks, error \in RemoteErrors : TaskAwaitThrows(task, error)
    \/ \E task \in tasks : TaskFinally(task)

SpecRestart == InitRestart /\ [][NextRestart]_vars

\* every job type and every failure: the rows of SpecRetry, and an UPDATE
\* and a MOVE job that have not run yet
InitFail == InitOneJob(FailedRows \cup {RetryJob(e, 0, NULL) : e \in {UPDATE, MOVE}})

SpecFail == InitFail /\ [][NextRetry]_vars

(***************************************************************************)
(* SpecRelocate: one RENAME or MOVE job whose row carries oldLocalPath and *)
(* oldRemotePath, as engine.ts passes them to enqueueJob and as processJob *)
(* reads them from the job; the queue that stores them is not among the    *)
(* sources (enqueueJob of src/src/jobs.ts leaves the columns NULL).        *)
(***************************************************************************)
\* the path a relocated /w/a gets: /w/b for RENAME, /w/d/a for MOVE
RelocatedPath(eventType) ==
    IF eventType = RENAME THEN <<"w", "b">> ELSE <<"w", "d", "a">>

OtherPath == <<"w", "c">>

\* a mapped node that the job is not about
OtherNode == [nodeUid |-> "uid-2", parentNodeUid |-> "p-1", isDirectory |-> FALSE]

\* the row of a RENAME or MOVE job of /w/a after nRetries failures
RelocateJob(eventType, nRetries, lastError) ==
    [RetryJob(eventType, nRetries, lastError)
        EXCEPT !.localPath = RelocatedPath(eventType),
               !.remotePath = RelocatedPath(eventType),
               !.oldLocalPath = RetryPath,
               !.oldRemotePath = RetryPath]

RelocateRows ==
    {RelocateJob(e, 0, NULL) : e \in {RENAME, MOVE}}
    \cup {RelocateJob(e, n, m) : e \in {RENAME, MOVE}, n \in 1..MaxRetryAttempts,
                                 m \in {"reupload needed", "quota exceeded"}}

\* the old path is mapped or not; the new path may hold a stale row; another
\* path is mapped or not
InitRelocate ==
    /\ \E r \in RelocateRows :
          /\ sync_jobs = {r}
          /\ \E mapped \in SUBSET {RetryPath, OtherPath, r.localPath} :
                node_mapping = [p \in mapped |->
                                   IF p = RetryPath THEN OldNode ELSE OtherNode]
    /\ nextId = 2
    /\ file_hashes = EmptyMap
    /\ syncConcurrency = 1
    /\ activeTasks = EmptyMap
    /\ tasks = {}
    /\ nextTid = 1
    /\ drain = "off"
    /\ drainAwait = {}
    /\ now = 0
    /\ dryRun = FALSE
    /\ lastOp = [op |-> "init"]
    /\ InitCtl

SpecRelocate == InitRelocate /\ [][NextRetry]_vars

(***************************************************************************)
(* SpecQueue: getNextPendingJob (src/src/jobs.ts) applied to queues of up  *)
(* to MaxQueueRows rows of every status, due and not due.                  *)
(***************************************************************************)
QueuePaths == <<<<"w", "a">>, <<"w", "b">>, <<"w", "c">>, <<"w", "d">>>>

QueueRow(id, status, retryAt) ==
    [NewJobRow(id, [eventType |-> CREATE, localPath |-> QueuePaths[id],
                    remotePath |-> QueuePaths[id]], retryAt)
        EXCEPT !.status = status]

\* a call getNextPendingJob() at time now
GetNextPendingJob ==
    /\ lastOp.op = "init"
    /\ lastOp' = [op |-> "getNextPendingJob",
                  result |-> getNextPendingJob(sync_jobs, now)]
    /\ UNCHANGED <<storeVars, poolVars, now, dryRun, ctlVars>>

InitQueue ==
    /\ \E n \in 0..MaxQueueRows :
          \E st \in [1..n -> SyncJobStatus], ra \in [1..n -> 0..MaxQueueTime] :
              /\ sync_jobs = {QueueRow(i, st[i], ra[i]) : i \in 1..n}
              /\ nextId = n + 1
    /\ file_hashes = EmptyMap
    /\ node_mapping = EmptyMap
    /\ syncConcurrency = 1
    /\ activeTasks = EmptyMap
    /\ tasks = {}
    /\ nextTid = 1
    /\ drain = "off"
    /\ drainAwait = {}
    /\ now \in 0..MaxQueueTime
    /\ dryRun = FALSE
    /\ lastOp = [op |-> "init"]
    /\ InitCtl

SpecQueue == InitQueue /\ [][GetNextPendingJob]_vars

(***************************************************************************)
(* SpecConverge: the local tree below the watch root, the translator, the  *)
(* pool and the remote tree.  A local change and the watcher batch that    *)
(* reports it are one step.  A remote call is two steps: the service       *)
(* performs it, then the awaiting task gets the result.                    *)
(***************************************************************************)
\* a directory and a file in it
TreeNames == {<<"d">>, <<"d", "a">>}

RemotePathOf(name) ==
    buildPaths([watchRoot |-> WatchRoot, name |-> name], Config).remotePath

NameOfLocalPath(localPath) == SubSeq(localPath, Len(WatchRoot) + 1, Len(localPath))

\* the remote folder of the watch root; ensureRemotePath finds or creates it
RemoteBase == RemotePathOf(<<>>)

\* the remote tree that mirrors a local tree
RemoteImage(tree) == {RemotePathOf(n) : n \in tree}

\* createNode: ensureRemotePath creates the missing parent folders, then the
\* file is uploaded or the directory created
remoteCreate(tree, remotePath) ==
    tree \cup {SubSeq(remotePath, 1, k) : k \in (Len(RemoteBase) + 1)..Len(remotePath)}

\* deleteNode: the node goes to the trash with everything below it; nothing
\* happens when the path does not exist
remoteDelete(tree, remotePath) ==
    {q \in tree : q # remotePath /\ ~IsUnderPath(remotePath, q)}

\* the events the watcher reports when name is created
CreatedEvents(name) ==
    <<FileChange(name, TRUE, TRUE, Len(name), IF TypeOf(name) = "f" THEN "h2" ELSE NULL)>>

\* the events the watcher reports when name is removed with everything
\* below it: the removed paths, children first
RemovedEvents(tree, name) ==
    LET below == {q \in tree : IsUnderPath(name, q)}
        child == CHOOSE q \in below : TRUE
    IN  IF below = {} THEN <<FileChange(name, FALSE, FALSE, Len(name), NULL)>>
        ELSE <<FileChange(child, FALSE, FALSE, Len(child), NULL),
               FileChange(name, FALSE, FALSE, Len(name), NULL)>>

\* the user creates name (its parent exists); handleFileChangeBatch runs
LocalCreate(name) ==
    /\ now < MaxLocalChanges
    /\ name \notin localTree
    /\ Len(name) > 1 => SubSeq(name, 1, Len(name) - 1) \in localTree
    /\ localTree' = localTree \cup {name}
    /\ CommitBatch(CreatedEvents(name))
    /\ UNCHANGED <<busVars, loopVars, oneShotVars, remote, opened, served>>

\* the user removes name and everything below it; handleFileChangeBatch runs
LocalRemove(name) ==
    /\ now < MaxLocalChanges
    /\ name \in localTree
    /\ localTree' = {q \in localTree : q # name /\ ~IsUnderPath(name, q)}
    /\ CommitBatch(RemovedEvents(localTree, name))
    /\ UNCHANGED <<busVars, loopVars, oneShotVars, remote, opened, served>>

Uploading(task) == task.pc = "remote" /\ task.job.eventType \in {CREATE, UPDATE}

\* createNode reads the local path: statSync, and createReadStream for a file
OpenLocal(task) ==
    /\ NoMicrotask
    /\ task \in tasks
    /\ Uploading(task)
    /\ task.tid \notin opened
    /\ NameOfLocalPath(task.job.localPath) \in localTree
    /\ opened' = opened \cup {task.tid}
    /\ lastOp' = [op |-> "open", job |-> task.job.id]
    /\ UNCHANGED <<storeVars, poolVars, now, dryRun, busVars, loopVars, oneShotVars,
                   localTree, remote, served>>

\* createNode does not find the local path: { success: false, error }
OpenFails(task) ==
    /\ Uploading(task)
    /\ task.tid \notin opened
    /\ NameOfLocalPath(task.job.localPath) \notin localTree
    /\ TaskAwaitThrows(task, "Path not found")

\* the service performs the remote call a task is waiting for
RemoteServes(task) ==
    /\ NoMicrotask
    /\ task \in tasks
    /\ task.pc = "remote"
    /\ task.tid \notin served
    /\ Uploading(task) => task.tid \in opened
    /\ remote' = IF task.job.eventType = DELETE
                 THEN remoteDelete(remote, task.job.remotePath)
                 ELSE remoteCreate(remote, task.job.remotePath)
    /\ served' = served \cup {task.tid}
    /\ lastOp' = [op |-> "remote", job |-> task.job.id]
    /\ UNCHANGED <<storeVars, poolVars, now, dryRun, busVars, loopVars, oneShotVars,
                   localTree, opened>>

\* the result of a performed call reaches the task
ServedReturns(task) == task.tid \in served /\ TaskAwaitReturns(task)

\* the connection fails before the service has performed the call
NetworkThrows(task) ==
    /\ task.tid \notin served
    /\ Uploading(task) => task.tid \in opened
    /\ TaskAwaitThrows(task, "ECONNRESET")

\* the trees mirror each other and the queue is empty when the daemon starts
InitConverge ==
    /\ localTree \in {{}, {<<"d">>}}
    /\ remote = RemoteImage(localTree)
    /\ node_mapping = [p \in {LocalPathOf(n) : n \in localTree} |-> MappedNode(<<"d">>)]
    /\ opened = {}
    /\ served = {}
    /\ sync_jobs = {}
    /\ nextId = 1
    /\ file_hashes = EmptyMap
    /\ syncConcurrency \in 1..MaxConcurrency
    /\ activeTasks = EmptyMap
    /\ tasks = {}
    /\ nextTid = 1
    /\ drain = "off"
    /\ drainAwait = {}
    /\ now = 0
    /\ dryRun = FALSE
    /\ lastOp = [op |-> "init"]
    /\ InitBus /\ InitLoop /\ InitOneShotOff

NextConverge ==
    \/ \E name \in TreeNames : LocalCreate(name)
    \/ \E name \in TreeNames : LocalRemove(name)
    \/ Tick
    \/ WaitUntilDue
    \/ \E task \in tasks : OpenLocal(task)
    \/ \E task \in tasks : OpenFails(task)
    \/ \E task \in tasks : RemoteServes(task)
    \/ \E task \in tasks : ServedReturns(task)
    \/ \E task \in tasks : NetworkThrows(task)

SpecConverge == InitConverge /\ [][NextConverge]_vars

(***************************************************************************)
(* The signal bus (src/src/signals.ts): a durable queue of rows that other *)
(* processes append to, and a polling loop that hands each row to the      *)
(* listeners registered in this process.                                   *)
(***************************************************************************)
SignalNames == {"stop", "pause-sync"}

\* what a listener does when it is invoked: it returns, it throws, or it
\* ends the process (process.exit)
HandlerOutcomes == {"returns", "throws", "exits"}

\* db.insert(schema.signals).values({ signal, createdAt })
sendSignal(rows, id, signal) == rows \cup {[id |-> id, signal |-> signal]}

alwaysListening(names, signal) == 1

\* signalEmitter.listenerCount(signal) > 0
listenerCount(names, signal) == IF signal \in names THEN 1 ELSE 0

RowOf(rows, id) == CHOOSE row \in rows : row.id = id

\* the for loop of the polling callback over the rows the SELECT returned
\* (ids holds those not looked at yet): a row with a listener is deleted
\* in the transaction and then emitted; emit runs the listener at once, and
\* what the listener throws leaves the loop and the transaction callback
RECURSIVE pollRows(_, _, _, _, _)
pollRows(tx, rows, ids, names, outcome) ==
    IF ids = {} \/ tx.error # "none" THEN tx
    ELSE LET id == CHOOSE i \in ids : \A j \in ids : i <= j
             row == RowOf(rows, id)
         IN  IF listenerCount(names, row.signal) > 0
             THEN pollRows([signals |-> tx.signals \ {row},
                            emitted |-> Append(tx.emitted, id),
                            error |-> IF outcome[id] = "returns" THEN "none"
                                      ELSE outcome[id]],
                           rows, ids \ {id}, names, outcome)
             ELSE pollRows(tx, rows, ids \ {id}, names, outcome)

\* the body of the transaction of one poll
signalPoll(rows, names, outcome) ==
    pollRows([signals |-> rows, emitted |-> <<>>, error |-> "none"],
             rows, {row.id : row \in rows}, names, outcome)

\* another process (a CLI command) or this one sends a signal
SendSignal(signal) ==
    /\ nextSignalId <= MaxSignals
    /\ signals' = sendSignal(signals, nextSignalId, signal)
    /\ nextSignalId' = nextSignalId + 1
    /\ lastOp' = [op |-> "sendSignal", signal |-> signal]
    /\ UNCHANGED <<listeners, pollingInterval, invocations>>
    /\ UNCHANGED <<storeVars, poolVars, now, dryRun, loopVars, oneShotVars, treeVars>>

RegisterSignalHandler(signal) ==
    /\ listeners' = listeners \cup {signal}
    /\ lastOp' = [op |-> "registerSignalHandler", signal |-> signal]
    /\ UNCHANGED <<signals, nextSignalId, pollingInterval, invocations>>
    /\ UNCHANGED <<storeVars, poolVars, now, dryRun, loopVars, oneShotVars, treeVars>>

UnregisterSignalHandler(signal) ==
    /\ listeners' = listeners \ {signal}
    /\ lastOp' = [op |-> "unregisterSignalHandler", signal |-> signal]
    /\ UNCHANGED <<signals, nextSignalId, pollingInterval, invocations>>
    /\ UNCHANGED <<storeVars, poolVars, now, dryRun, loopVars, oneShotVars, treeVars>>

\* if (pollingInterval) return; pollingInterval = setInterval(...)
StartSignalListener ==
    /\ pollingInterval' = TRUE
    /\ lastOp' = [op |-> "startSignalListener"]
    /\ UNCHANGED <<signals, nextSignalId, listeners, invocations>>
    /\ UNCHANGED <<storeVars, poolVars, now, dryRun, loopVars, oneShotVars, treeVars>>

StopSignalListener ==
    /\ pollingInterval' = FALSE
    /\ lastOp' = [op |-> "stopSignalListener"]
    /\ UNCHANGED <<signals, nextSignalId, listeners, invocations>>
    /\ UNCHANGED <<storeVars, poolVars, now, dryRun, loopVars, oneShotVars, treeVars>>

Invoked(counts, id) == IF id \in DOMAIN counts THEN counts[id] ELSE 0

SeqRange(q) == {q[i] : i \in 1..Len(q)}

\* one run of the interval callback.  The transaction commits when its
\* callback returns; when a listener throws, the callback throws and the
\* transaction is rolled back; when a listener ends the process, the
\* transaction was never committed.  An exception that leaves the timer
\* callback is uncaught: the process handles it and goes on, or it ends.
\* A process that ends loses its listeners and its interval.
SignalPoll(outcomes) ==
    /\ pollingInterval
    /\ \E outcome \in [{row.id : row \in signals} -> outcomes], survives \in BOOLEAN :
          LET tx == signalPoll(signals, listeners, outcome)
              committed == transaction([signals |-> signals, error |-> "none"], tx)
              ended == tx.error = "exits" \/ (tx.error = "throws" /\ ~survives)
          IN  /\ tx.error = "throws" \/ survives
              /\ \A id \in SeqRange(tx.emitted) : Invoked(invocations, id) < MaxInvocations
              /\ signals' = committed.signals
              /\ invocations' = [id \in DOMAIN invocations \cup SeqRange(tx.emitted) |->
                                    IF id \in SeqRange(tx.emitted)
                                    THEN Invoked(invocations, id) + 1
                                    ELSE invocations[id]]
              /\ listeners' = (IF ended THEN {} ELSE listeners)
              /\ pollingInterval' = ~ended
              /\ lastOp' = [op |-> "poll", before |-> signals, listeners |-> listeners,
                            emitted |-> tx.emitted, error |-> tx.error]
    /\ UNCHANGED <<nextSignalId, storeVars, poolVars, now, dryRun, loopVars, oneShotVars, treeVars>>

\* a process with an empty queue and an idle pool
InitIdle ==
    /\ InitStore
    /\ syncConcurrency = 1
    /\ activeTasks = EmptyMap
    /\ tasks = {}
    /\ nextTid = 1
    /\ drain = "off"
    /\ drainAwait = {}
    /\ now = 0
    /\ dryRun = FALSE
    /\ lastOp = [op |-> "init"]

InitSignals == InitIdle /\ InitCtl

NextSignals ==
    \/ \E signal \in SignalNames : SendSignal(signal)
    \/ \E signal \in SignalNames : RegisterSignalHandler(signal)
    \/ \E signal \in SignalNames : UnregisterSignalHandler(signal)
    \/ StartSignalListener
    \/ StopSignalListener
    \/ SignalPoll(HandlerOutcomes)

SpecSignals == InitSignals /\ [][NextSignals]_vars

\* the handshake between a producer and the daemon: signals are sent before
\* or after the daemon has registered its listeners and started polling;
\* the listeners return (as handleStop of runWatchMode does), nothing is
\* unregistered and the interval, once set, fires again and again
NextSignalsLive ==
    \/ \E signal \in SignalNames : SendSignal(signal)
    \/ \E signal \in SignalNames : RegisterSignalHandler(signal)
    \/ StartSignalListener
    \/ SignalPoll({"returns"})

SpecSignalsLive ==
    InitSignals /\ [][NextSignalsLive]_vars /\ WF_vars(SignalPoll({"returns"}))

(***************************************************************************)
(* Watch mode (src/src/sync/engine.ts, runWatchMode): the job processor    *)
(* loop, the PAUSED flag and stop().  The pool runs one task at a time.    *)
(***************************************************************************)
PAUSED == "paused"

neverPaused(rows) == FALSE

\* isPaused(): the PAUSED flag is set
isPaused(rows) == PAUSED \in rows

\* processLoop past its check of running: the heartbeat, the dispatch unless
\* paused, and the next timer
ProcessLoopBody ==
    LET paused == isPaused(flags)
    IN  \E ps \in (IF paused THEN {CurrentPool}
                   ELSE processAvailableJobs(CurrentPool, syncConcurrency, dryRun, now)) :
           /\ ps.nextTid <= MaxSpawns + 1
           /\ sync_jobs' = ps.sync_jobs
           /\ tasks' = ps.tasks
           /\ activeTasks' = ps.activeTasks
           /\ nextTid' = ps.nextTid
           /\ timeoutId' = TRUE
           /\ lastOp' = [op |-> "processLoop", heartbeat |-> [sent |-> TRUE, paused |-> paused],
                         handed |-> ps.handed, slots |-> AvailableSlots(syncConcurrency, activeTasks),
                         due |-> DueJobs(sync_jobs, now) # {}]

\* startJobProcessorLoop(client, dryRun): running = true and the first
\* call of processLoop
StartJobProcessorLoop ==
    /\ NoMicrotask
    /\ ~running /\ stop = "idle"
    /\ running' = TRUE
    /\ ProcessLoopBody
    /\ UNCHANGED <<nextId, file_hashes, node_mapping, now, syncConcurrency, drain,
                   drainAwait, dryRun, busVars, flags, stop, stopAwait, oneShotVars, treeVars>>

\* the timer set by processLoop fires
ProcessLoop ==
    /\ NoMicrotask
    /\ timeoutId
    /\ IF ~running
       THEN /\ lastOp' = [op |-> "processLoop", heartbeat |-> [sent |-> FALSE, paused |-> FALSE], handed |-> <<>>,
                          slots |-> 0, due |-> FALSE]
            /\ UNCHANGED <<sync_jobs, tasks, activeTasks, nextTid, timeoutId>>
       ELSE ProcessLoopBody
    /\ UNCHANGED <<nextId, file_hashes, node_mapping, now, syncConcurrency, drain,
                   drainAwait, dryRun, busVars, flags, running, stop, stopAwait, oneShotVars, treeVars>>

\* the daemon's handler of pause-sync sets the flag, that of resume-sync
\* clears it
SetPaused ==
    /\ flags' = flags \cup {PAUSED}
    /\ lastOp' = [op |-> "setFlag"]
    /\ UNCHANGED <<storeVars, poolVars, now, dryRun, busVars, running, timeoutId,
                   stop, stopAwait, oneShotVars, treeVars>>

ClearPaused ==
    /\ flags' = flags \ {PAUSED}
    /\ lastOp' = [op |-> "clearFlag"]
    /\ UNCHANGED <<storeVars, poolVars, now, dryRun, busVars, running, timeoutId,
                   stop, stopAwait, oneShotVars, treeVars>>

stopLoopNoop(r, t) == [running |-> r, timeoutId |-> t]

\* running = false; clearTimeout(timeoutId); timeoutId = null
stopLoop(r, t) == [running |-> FALSE, timeoutId |-> FALSE]

\* waitForActiveTasks(): Promise.all(activeTasks.values())
waitForActiveTasks(active) == Range(active)

\* processorHandle.stop() up to its await
StopCalled ==
    /\ NoMicrotask
    /\ running /\ stop = "idle"
    /\ LET loop == stopLoop(running, timeoutId)
       IN  running' = loop.running /\ timeoutId' = loop.timeoutId
    /\ stopAwait' = waitForActiveTasks(activeTasks)
    /\ stop' = "waiting"
    /\ lastOp' = [op |-> "stop", result |-> NULL, abandoned |-> {}]
    /\ UNCHANGED <<storeVars, poolVars, now, dryRun, busVars, flags, oneShotVars, treeVars>>

\* Promise.race is won by waitForActiveTasks: every collected promise settled
StopDone ==
    /\ stop = "waiting"
    /\ \A task \in tasks : task.tid \notin stopAwait
    /\ stop' = "done"
    /\ lastOp' = [op |-> "stop", result |-> "done", abandoned |-> {}]
    /\ UNCHANGED <<storeVars, poolVars, now, dryRun, busVars, flags, running,
                   timeoutId, stopAwait, oneShotVars, treeVars>>

StopTimeoutNever == FALSE /\ UNCHANGED vars

\* Promise.race is won by the timer of SHUTDOWN_TIMEOUT_MS
StopTimeout ==
    /\ NoMicrotask
    /\ stop = "waiting"
    /\ stop' = "timeout"
    /\ lastOp' = [op |-> "stop", result |-> "timeout",
                  abandoned |-> {task.job.id : task \in tasks}]
    /\ UNCHANGED <<storeVars, poolVars, now, dryRun, busVars, flags, running,
                   timeoutId, stopAwait, oneShotVars, treeVars>>

\* the queue at the start: a CREATE job, or a RENAME job (which fails before
\* its first await), and possibly a DELETE job behind it
WatchRows(eventType) ==
    {NewJobRow(1, [eventType |-> eventType, localPath |-> <<"w", "a">>,
                   remotePath |-> <<"w", "a">>], 0),
     NewJobRow(2, [eventType |-> DELETE, localPath |-> <<"w", "b">>,
                   remotePath |-> <<"w", "b">>], 0)}

InitWatch ==
    /\ \E n \in 1..2, e \in {CREATE, RENAME} :
          sync_jobs = {r \in WatchRows(e) : r.id <= n} /\ nextId = n + 1
    /\ file_hashes = EmptyMap
    /\ node_mapping = EmptyMap
    /\ syncConcurrency = 1
    /\ activeTasks = EmptyMap
    /\ tasks = {}
    /\ nextTid = 1
    /\ drain = "off"
    /\ drainAwait = {}
    /\ now = 0
    /\ dryRun = FALSE
    /\ lastOp = [op |-> "init"]
    /\ InitCtl

NextWatch ==
    \/ StartJobProcessorLoop
    \/ ProcessLoop
    \/ SetPaused
    \/ ClearPaused
    \/ StopCalled
    \/ StopDone
    \/ StopTimeout
    \/ Restart
    \/ \E task \in tasks : TaskAwaitReturns(task)
    \/ \E task \in tasks, error \in ExecErrors : TaskAwaitThrows(task, error)
    \/ \E task \in tasks : TaskFinally(task)

\* timers fire and microtasks run; nothing makes a remote call return
SpecWatch ==
    /\ InitWatch /\ [][NextWatch]_vars
    /\ WF_vars(StopDone) /\ WF_vars(StopTimeout)
    /\ WF_vars(\E task \in tasks : TaskFinally(task))

(***************************************************************************)
(* SpecLive: one job in watch mode under fair scheduling.  The job has     *)
(* failed before and is within MaxSpawns attempts of MAX_RETRIES, so that  *)
(* the attempts the model allows are enough to exhaust its retries.        *)
(***************************************************************************)
\* the failures that are not classified NETWORK
OtherErrors == {"reupload needed", "quota exceeded"}

LiveRows ==
    {RetryJob(e, n, m) : e \in {CREATE, UPDATE, DELETE},
                         n \in (MAX_RETRIES + 1 - MaxSpawns)..MAX_RETRIES,
                         m \in OtherErrors}
    \cup {RetryJob(e, n, "Node mapping not found")
          : e \in {RENAME, MOVE}, n \in (MAX_RETRIES + 1 - MaxSpawns)..MAX_RETRIES}

InitLive == InitOneJob(LiveRows)

RemoteCallReturns ==
    \/ \E task \in tasks : TaskAwaitReturns(task)
    \/ \E task \in tasks, error \in OtherErrors : TaskAwaitThrows(task, error)

NextLive ==
    \/ StartJobProcessorLoop
    \/ ProcessLoop
    \/ SetPaused
    \/ ClearPaused
    \/ WaitUntilDue
    \/ \E task \in tasks : TaskAwaitReturns(task)
    \/ \E task \in tasks, error \in OtherErrors : TaskAwaitThrows(task, error)
    \/ \E task \in tasks : TaskFinally(task)

\* the loop is started and its timer keeps firing; the PAUSED flag is cleared
\* again and again and a tick falls into a time when it is clear; the clock
\* reaches every retryAt; every remote call returns; finally callbacks run
SpecLive ==
    /\ InitLive /\ [][NextLive]_vars
    /\ WF_vars(StartJobProcessorLoop)
    /\ WF_vars(ClearPaused)
    /\ SF_vars(ProcessLoop /\ ~isPaused(flags))
    /\ WF_vars(WaitUntilDue)
    /\ WF_vars(RemoteCallReturns)
    /\ WF_vars(\E task \in tasks : TaskFinally(task))

(***************************************************************************)
(* One-shot sync (src/src/sync/engine.ts, runOneShotSync).                 *)
(***************************************************************************)
\* the changes the watcher replays: none, a new file, or a new directory
\* with a new file in it
ReplayedChanges ==
    {<<>>,
     <<FileChange(<<"e", "a">>, TRUE, TRUE, 1, "h2")>>,
     <<FileChange(<<"d">>, TRUE, TRUE, 1, NULL),
       FileChange(<<"d", "a">>, TRUE, TRUE, 2, "h2")>>}

\* await connectWatchman()
ConnectWatchman ==
    /\ oneShot = "start"
    /\ watchman' = TRUE
    /\ oneShot' = "connected"
    /\ lastOp' = [op |-> "connectWatchman"]
    /\ UNCHANGED <<storeVars, poolVars, now, dryRun, busVars, loopVars, treeVars, totalChanges>>

\* the cleanup transaction of runOneShotSync
OneShotCleanup ==
    /\ oneShot = "connected"
    /\ sync_jobs' = cleanupOrphanedJobs(sync_jobs, dryRun)
    /\ file_hashes' = cleanupOrphanedHashes(file_hashes, Config)
    /\ node_mapping' = cleanupOrphanedNodeMappings(node_mapping, Config)
    /\ oneShot' = "cleaned"
    /\ lastOp' = [op |-> "cleanup"]
    /\ UNCHANGED <<nextId, now, poolVars, dryRun, busVars, loopVars, treeVars, watchman,
                   totalChanges>>

\* await queryAllChanges(config, onBatch, dryRun): the watcher hands the
\* changes to handleFileChangeBatch, if there are any, and returns their
\* number
QueryAllChanges(files) ==
    /\ oneShot = "cleaned"
    /\ LET ts == handleFileChangeBatch(CurrentDb, files, Config, dryRun, now)
           committed == IF files = <<>> THEN CurrentDb
                        ELSE transaction(CurrentDb, ts.db)
       IN  /\ sync_jobs' = committed.sync_jobs
           /\ nextId' = committed.nextId
           /\ file_hashes' = committed.file_hashes
           /\ node_mapping' = committed.node_mapping
    /\ totalChanges' = Len(files)
    /\ oneShot' = "replayed"
    /\ lastOp' = [op |-> "queryAllChanges", files |-> files]
    /\ UNCHANGED <<now, poolVars, dryRun, busVars, loopVars, treeVars, watchman>>

\* if (totalChanges === 0) return; otherwise drainQueue is entered
OneShotAfterReplay ==
    /\ oneShot = "replayed"
    /\ IF totalChanges = 0
       THEN oneShot' = "returned" /\ drain' = drain
       ELSE oneShot' = "draining" /\ drain' = "loop"
    /\ lastOp' = [op |-> "runOneShotSync", changes |-> totalChanges]
    /\ UNCHANGED <<storeVars, now, syncConcurrency, activeTasks, tasks, nextTid,
                   drainAwait, dryRun, busVars, loopVars, treeVars, watchman, totalChanges>>

\* drainQueue has returned: closeWatchman() and return
CloseWatchman ==
    /\ NoMicrotask
    /\ oneShot = "draining"
    /\ drain = "done"
    /\ watchman' = FALSE
    /\ oneShot' = "returned"
    /\ lastOp' = [op |-> "closeWatchman"]
    /\ UNCHANGED <<storeVars, poolVars, now, dryRun, busVars, loopVars, treeVars, totalChanges>>

\* the queue when the command starts: empty, or with a job that an earlier
\* run enqueued and did not complete
InitOneShot ==
    /\ \/ sync_jobs = {} /\ nextId = 1
       \/ \E e \in {CREATE, RENAME} : sync_jobs = {RetryJob(e, 0, NULL)} /\ nextId = 2
    /\ file_hashes = EmptyMap
    /\ node_mapping = EmptyMap
    /\ syncConcurrency \in 1..MaxConcurrency
    /\ activeTasks = EmptyMap
    /\ tasks = {}
    /\ nextTid = 1
    /\ drain = "off"
    /\ drainAwait = {}
    /\ now = 0
    /\ dryRun = FALSE
    /\ lastOp = [op |-> "init"]
    /\ InitBus /\ InitLoop /\ InitTreeOff
    /\ oneShot = "start"
    /\ watchman = FALSE
    /\ totalChanges = 0

NextOneShot ==
    \/ ConnectWatchman
    \/ OneShotCleanup
    \/ \E files \in ReplayedChanges : QueryAllChanges(files)
    \/ OneShotAfterReplay
    \/ DrainIterate
    \/ DrainResume
    \/ CloseWatchman
    \/ \E task \in tasks : TaskAwaitReturns(task)
    \/ \E task \in tasks, error \in ExecErrors : TaskAwaitThrows(task, error)
    \/ \E task \in tasks : TaskFinally(task)

SpecOneShot == InitOneShot /\ [][NextOneShot]_vars

(***************************************************************************)
(* Dry run (--dry-run): the translator and the executor with dryRun = true *)
(* over a store that an earlier, real run has filled.                      *)
(***************************************************************************)
\* the batches the watcher delivers in a dry run: up to two events
DryBatches == {files \in Batches : Len(files) <= 2}

\* /w/d, /w/d/a and /w/e/a are synced (mapped, the files hashed); a CREATE
\* or a RENAME job of the earlier run is still PENDING, or there is none
InitDry ==
    /\ node_mapping = [p \in {LocalPathOf(n) : n \in {<<"d">>, <<"d", "a">>, <<"e", "a">>}}
                          |-> MappedNode(SubSeq(p, 2, Len(p)))]
    /\ file_hashes = [p \in {LocalPathOf(n) : n \in {<<"d", "a">>, <<"e", "a">>}} |-> "h1"]
    /\ sync_jobs \in {{}, {RetryJob(CREATE, 0, NULL)}, {RetryJob(RENAME, 0, NULL)}}
    /\ nextId = 2
    /\ syncConcurrency = 1
    /\ activeTasks = EmptyMap
    /\ tasks = {}
    /\ nextTid = 1
    /\ drain = "off"
    /\ drainAwait = {}
    /\ now = 0
    /\ dryRun = TRUE
    /\ lastOp = [op |-> "init"]
    /\ InitCtl

NextDry ==
    \/ now < MaxTime /\ \E files \in DryBatches : HandleFileChangeBatch(files)
    \/ Tick
    \/ \E task \in tasks : TaskAwaitReturns(task)
    \/ \E task \in tasks : TaskFinally(task)

SpecDry == InitDry /\ [][NextDry]_vars

(***************************************************************************)
(* Claims about the task pool and the queue, checked under SpecExec.       *)
(***************************************************************************)
\* the processJob invocations suspended at a remote call
InFlight == {task \in tasks : task.pc # "finally"}

\* C1: in every reachable state no sync job, and hence no (localPath,
\* remotePath) key, has more than one in-flight processJob task.
C1_NoDoubleSchedule ==
    \A a \in InFlight, b \in InFlight :
        (a.job.id = b.job.id
           \/ (a.job.localPath = b.job.localPath /\ a.job.remotePath = b.job.remotePath))
        => a.tid = b.tid

\* activeTasks.size never exceeds syncConcurrency
ActiveSizeWithinLimit == Cardinality(DOMAIN activeTasks) <= syncConcurrency

\* C2: in every reachable state the number of in-flight tasks, which the
\* pool counts as activeTasks.size, is at most the concurrency limit N.
C2_AtMostNInFlight ==
    /\ Cardinality(DOMAIN activeTasks) <= syncConcurrency
    /\ Cardinality(InFlight) <= syncConcurrency

\* the rows of sync_jobs with the key of params
RowsOfKey(rows, params) ==
    {r \in rows : r.localPath = params.localPath /\ r.remotePath = params.remotePath}

\* C3: after any sequence of enqueueJob, executor outcomes and cleanups,
\* sync_jobs holds at most one row for each (localPath, remotePath) pair.
C3_OneRowPerKey ==
    \A r1 \in sync_jobs, r2 \in sync_jobs :
        (r1.localPath = r2.localPath /\ r1.remotePath = r2.remotePath) => r1 = r2

\* an enqueue for a key that has a row, which a task has already completed
C3_Witness ==
    /\ lastOp.op = "enqueueJob"
    /\ lastOp.result = "ConflictError"
    /\ \E r \in RowsOfKey(sync_jobs, lastOp.params) : r.status = SYNCED

\* C4: calling enqueueJob twice (dryRun = false) with the same (eventType,
\* localPath, remotePath, contentHash) succeeds both times and leaves
\* exactly one PENDING job for that key.
C4_EnqueueTwice ==
    [][(/\ ~dryRun
        /\ lastOp.op = "enqueueJob" /\ lastOp.result = "none"
        /\ lastOp'.op = "enqueueJob" /\ lastOp'.params = lastOp.params)
       => (/\ lastOp'.result = "none"
           /\ Cardinality({r \in RowsOfKey(sync_jobs', lastOp'.params) :
                              r.status = PENDING}) = 1)]_vars

\* C5: enqueuing a CREATE or UPDATE for a key that already has a PENDING job
\* replaces that job's fields with the new ones and resets it to
\* nRetries = 0, lastError = null, retryAt = now.
C5_EnqueueReplaces ==
    [][(/\ ~dryRun
        /\ lastOp'.op = "enqueueJob"
        /\ lastOp'.params.eventType \in {CREATE, UPDATE}
        /\ \E r \in RowsOfKey(sync_jobs, lastOp'.params) : r.status = PENDING)
       => (\E r \in RowsOfKey(sync_jobs', lastOp'.params) :
              /\ r.status = PENDING
              /\ r.eventType = lastOp'.params.eventType
              /\ r.contentHash = lastOp'.params.contentHash
              /\ r.nRetries = 0
              /\ r.lastError = NULL
              /\ r.retryAt = now')]_vars

(***************************************************************************)
(* Claims about the change translator, checked under SpecBatch.  They are  *)
(* read off lastOp, the record of the batch handled last: its files, the   *)
(* pairs the handler matched, the parameters it passed to enqueueJob, the  *)
(* outcome of the transaction and the tables before it.                    *)
(***************************************************************************)
BatchDone == lastOp.op = "handleFileChangeBatch"
BatchCommitted == BatchDone /\ lastOp.result = "none"

\* the i-th event of the batch with its paths
BatchFile(i) == FileChangeWithPaths(lastOp.files[i], Config)
DeleteEvents == {i \in 1..Len(lastOp.files) : ~lastOp.files[i].exists}
CreateEvents ==
    {i \in 1..Len(lastOp.files) : lastOp.files[i].exists /\ lastOp.files[i].new}
UpdateEvents ==
    {i \in 1..Len(lastOp.files) : lastOp.files[i].exists /\ ~lastOp.files[i].new}

\* the inodes on a delete event and on a create event, and their pair: the
\* last delete event and the last create event of the inode
PairedInodes ==
    {lastOp.files[i].ino : i \in DeleteEvents} \cap {lastOp.files[i].ino : i \in CreateEvents}
LastOf(S) == CHOOSE i \in S : \A j \in S : j <= i
FromOf(x) == BatchFile(LastOf({i \in DeleteEvents : lastOp.files[i].ino = x}))
ToOf(x) == BatchFile(LastOf({i \in CreateEvents : lastOp.files[i].ino = x}))

\* the calls of enqueueJob of the batch, and the rows they inserted
Emitted == 1..Len(lastOp.emitted)
EmittedAt(types, localPath) ==
    {i \in Emitted : lastOp.emitted[i].eventType \in types
                      /\ lastOp.emitted[i].localPath = localPath}
NewRows == {r \in sync_jobs : r.id >= lastOp.before.nextId}

\* exactly one RENAME or MOVE for the pair of x, no DELETE of the old path,
\* no CREATE of the new path
RenamedAsPair(x) ==
    /\ Cardinality({i \in EmittedAt({RENAME, MOVE}, ToOf(x).localPath) :
                      lastOp.emitted[i].oldLocalPath = FromOf(x).localPath}) = 1
    /\ Cardinality({r \in NewRows : /\ r.eventType \in {RENAME, MOVE}
                                     /\ r.localPath = ToOf(x).localPath
                                     /\ r.remotePath = ToOf(x).remotePath}) = 1
    /\ EmittedAt({DELETE}, FromOf(x).localPath) = {}
    /\ EmittedAt({CREATE}, ToOf(x).localPath) = {}

MappedBefore(x) == FromOf(x).localPath \in DOMAIN lastOp.before.node_mapping

\* the handler examined the pair of x (as its k-th pair)
PairIndex(x) ==
    {k \in 1..Len(lastOp.pairs) :
        lastOp.pairs[k].from = FromOf(x) /\ lastOp.pairs[k].to = ToOf(x)}

\* getNodeMapping(from.localPath) found a row when the pair of x was handled
MappedWhenHandled(x) == \E k \in PairIndex(x) : lastOp.pairs[k].nodeMapping

\* an earlier pair of the batch fell back to DELETE + CREATE for a directory
\* that encloses the old path of x, which purged the mapping of x
PurgedByEarlierPair(x) ==
    \E k \in PairIndex(x) : \E j \in 1..(k - 1) :
        /\ ~lastOp.pairs[j].nodeMapping
        /\ lastOp.pairs[j].from.type = "d"
        /\ IsUnderPath(lastOp.pairs[j].from.localPath, FromOf(x).localPath)

\* C6 as stated: after a commit, every inode on a delete event and on a
\* create event whose delete path has a NodeMapping (before the batch) got
\* exactly one RENAME or MOVE, no DELETE of the old path and no CREATE of
\* the new path.
C6_MappedBeforeBatch ==
    BatchCommitted =>
        \A x \in PairedInodes : MappedBefore(x) => RenamedAsPair(x)

\* C6, amended: after a commit, every inode on a delete event and on a
\* create event is examined as one pair; its lookup finds a NodeMapping
\* exactly when the delete path had one before the batch that no earlier
\* pair of the batch purged (by falling back to DELETE + CREATE for an
\* enclosing directory); and when the lookup finds one, exactly one RENAME
\* or MOVE was enqueued for the pair, no DELETE of the old path and no
\* CREATE of the new path.
C6_MappedWhenHandled ==
    BatchCommitted =>
        \A x \in PairedInodes :
            /\ Cardinality(PairIndex(x)) = 1
            /\ MappedWhenHandled(x) <=> (MappedBefore(x) /\ ~PurgedByEarlierPair(x))
            /\ MappedWhenHandled(x) => RenamedAsPair(x)

\* a committed batch with two pairs, both with a mapping and both renamed
C6_Witness ==
    /\ BatchCommitted
    /\ Cardinality(PairedInodes) = 2
    /\ \A x \in PairedInodes : MappedWhenHandled(x) /\ RenamedAsPair(x)

\* a committed batch with a pair whose mapping an earlier fallback purged
C6_PurgedReached ==
    /\ BatchCommitted
    /\ \E y \in PairedInodes : MappedBefore(y) /\ PurgedByEarlierPair(y)

\* the job of the pair of x, as C7 describes it
RenameJobOf(x) ==
    [eventType |-> IF dirname(FromOf(x).localPath) = dirname(ToOf(x).localPath)
                   THEN RENAME ELSE MOVE,
     localPath |-> ToOf(x).localPath,
     remotePath |-> ToOf(x).remotePath,
     contentHash |-> ToOf(x).hash,
     oldLocalPath |-> FromOf(x).localPath,
     oldRemotePath |-> FromOf(x).remotePath]

\* the calls of enqueueJob that name a path of the pair of x
EmittedForPair(x) ==
    {i \in Emitted :
        \/ lastOp.emitted[i].localPath \in {FromOf(x).localPath, ToOf(x).localPath}
        \/ lastOp.emitted[i].oldLocalPath \in {FromOf(x).localPath, ToOf(x).localPath}}

\* C7: for a pair (from, to) with a NodeMapping at from.localPath the job
\* passed to enqueueJob is RENAME exactly when dirname(from.localPath) =
\* dirname(to.localPath) and MOVE otherwise, with oldLocalPath =
\* from.localPath, oldRemotePath = from.remotePath, localPath =
\* to.localPath, remotePath = to.remotePath and contentHash = the hash of
\* the create event.
C7_RenameOrMoveJob ==
    BatchCommitted =>
        \A x \in PairedInodes :
            MappedWhenHandled(x) =>
                /\ EmittedForPair(x) # {}
                /\ \A i \in EmittedForPair(x) : lastOp.emitted[i] = RenameJobOf(x)

\* a committed batch that emitted a RENAME for one pair and a MOVE for
\* another, the MOVE with the hash of its create event
C7_Witness ==
    /\ BatchCommitted
    /\ \E x \in PairedInodes, y \in PairedInodes :
          /\ MappedWhenHandled(x) /\ MappedWhenHandled(y)
          /\ RenameJobOf(x).eventType = RENAME
          /\ RenameJobOf(y).eventType = MOVE
          /\ RenameJobOf(y).contentHash = "h2"
          /\ \E i \in Emitted : lastOp.emitted[i] = RenameJobOf(x)
          /\ \E i \in Emitted : lastOp.emitted[i] = RenameJobOf(y)

\* no row of a table at localPath nor, for a directory, below it
NoRowAt(table, file) ==
    /\ file.localPath \notin DOMAIN table
    /\ file.type = "d" => \A q \in DOMAIN table : ~IsUnderPath(file.localPath, q)

\* C8: for a pair (from, to) with no NodeMapping at from.localPath the
\* translator enqueues exactly two jobs, DELETE(from) and CREATE(to) with
\* the hash of to, and no RENAME or MOVE; after the commit there is no
\* FileHash and no NodeMapping row at from.localPath nor, when from is a
\* directory, at any path below it.
C8_FallbackDeleteCreate ==
    BatchCommitted =>
        \A x \in PairedInodes :
            ~MappedWhenHandled(x) =>
                /\ Cardinality(EmittedForPair(x)) = 2
                /\ \E i \in EmittedForPair(x) :
                      lastOp.emitted[i] =
                          JobParams(DELETE, FromOf(x), NULL, NoPath, NoPath)
                /\ \E i \in EmittedForPair(x) :
                      lastOp.emitted[i] =
                          JobParams(CREATE, ToOf(x), ToOf(x).hash, NoPath, NoPath)
                /\ \E r \in NewRows : /\ r.eventType = DELETE
                                       /\ r.localPath = FromOf(x).localPath
                                       /\ r.remotePath = FromOf(x).remotePath
                /\ \E r \in NewRows : /\ r.eventType = CREATE
                                       /\ r.localPath = ToOf(x).localPath
                                       /\ r.remotePath = ToOf(x).remotePath
                /\ NoRowAt(file_hashes, FromOf(x))
                /\ NoRowAt(node_mapping, FromOf(x))

\* a committed fallback for a directory that had rows below it, and one
\* for a file with a hash
C8_Witness ==
    /\ BatchCommitted
    /\ \E x \in PairedInodes :
          /\ ~MappedBefore(x)
          /\ ~MappedWhenHandled(x)
          /\ FromOf(x).type = "d"
          /\ \E q \in DOMAIN lastOp.before.file_hashes :
                IsUnderPath(FromOf(x).localPath, q)
          /\ \E q \in DOMAIN lastOp.before.node_mapping :
                IsUnderPath(FromOf(x).localPath, q)
          /\ ToOf(x).type = "f"
          /\ Cardinality(EmittedForPair(x)) = 2

\* the row of path p is the same in table as in before
SameRow(table, before, p) ==
    /\ p \in DOMAIN table <=> p \in DOMAIN before
    /\ p \in DOMAIN table => table[p] = before[p]

\* the i-th event is a file update whose hash equals the stored hash
HashSuppressed(i) ==
    /\ i \in UpdateEvents
    /\ lastOp.files[i].type = "f"
    /\ lastOp.files[i].hash # NULL
    /\ getStoredHash(lastOp.before.file_hashes, BatchFile(i).localPath)
           = lastOp.files[i].hash

\* the i-th event is a directory update
DirectoryUpdate(i) == i \in UpdateEvents /\ lastOp.files[i].type = "d"

\* no call of enqueueJob names the path of the i-th event
NothingEmittedFor(i) ==
    \A k \in Emitted : /\ lastOp.emitted[k].localPath # BatchFile(i).localPath
                        /\ lastOp.emitted[k].oldLocalPath # BatchFile(i).localPath

\* C9: a file event with exists = true and new = false whose hash equals
\* the stored FileHash of its localPath enqueues no job and leaves the
\* FileHash and NodeMapping rows as they were; a directory event with
\* exists = true and new = false enqueues no job; a batch of such events
\* only changes nothing at all.
C9_UnchangedUpdateSkipped ==
    BatchDone =>
        /\ \A i \in UpdateEvents :
              (HashSuppressed(i) \/ DirectoryUpdate(i)) => NothingEmittedFor(i)
        /\ \A i \in UpdateEvents :
              HashSuppressed(i) =>
                  /\ SameRow(file_hashes, lastOp.before.file_hashes,
                             BatchFile(i).localPath)
                  /\ SameRow(node_mapping, lastOp.before.node_mapping,
                             BatchFile(i).localPath)
        /\ (\A i \in 1..Len(lastOp.files) : HashSuppressed(i) \/ DirectoryUpdate(i))
              => /\ lastOp.emitted = <<>>
                 /\ file_hashes = lastOp.before.file_hashes
                 /\ node_mapping = lastOp.before.node_mapping
                 /\ nextId = lastOp.before.nextId

\* a batch of an unchanged file update and a directory update
C9_Witness ==
    /\ BatchDone
    /\ Len(lastOp.files) = 2
    /\ \E i \in UpdateEvents : HashSuppressed(i)
    /\ \E i \in UpdateEvents : DirectoryUpdate(i)
    /\ lastOp.emitted = <<>>

\* the delete events of a directory whose inode is on no create event
UnpairedDirectoryDeletes ==
    {i \in DeleteEvents :
        /\ lastOp.files[i].type = "d"
        /\ \A j \in CreateEvents : lastOp.files[j].ino # lastOp.files[i].ino}

\* path p is the path of no delete event of the batch, nor below one
OutsideDeletes(p) ==
    \A i \in DeleteEvents :
        p # BatchFile(i).localPath /\ ~IsUnderPath(BatchFile(i).localPath, p)

\* the rows outside the deleted paths are as they were
OutsideUntouched ==
    /\ \A p \in DOMAIN lastOp.before.file_hashes :
          OutsideDeletes(p) => SameRow(file_hashes, lastOp.before.file_hashes, p)
    /\ \A p \in DOMAIN lastOp.before.node_mapping :
          OutsideDeletes(p) => SameRow(node_mapping, lastOp.before.node_mapping, p)
    /\ DOMAIN file_hashes \subseteq DOMAIN lastOp.before.file_hashes
    /\ DOMAIN node_mapping \subseteq DOMAIN lastOp.before.node_mapping

\* C10: after the commit of a batch with an unpaired delete event of a
\* directory d, no FileHash row and no NodeMapping row has localPath d or
\* a path strictly below d, and the rows of paths outside the deleted
\* paths are as they were.
C10_DirectoryDeletePurged ==
    BatchCommitted =>
        /\ \A i \in UnpairedDirectoryDeletes :
              /\ NoRowAt(file_hashes, BatchFile(i))
              /\ NoRowAt(node_mapping, BatchFile(i))
        /\ OutsideUntouched

\* the same for the unpaired directory deletes that are the last delete
\* event of their inode, the ones deletesByIno still holds
LastDeleteOfDirectoryPurged ==
    BatchCommitted =>
        /\ \A i \in UnpairedDirectoryDeletes :
              (\A j \in DeleteEvents :
                   lastOp.files[j].ino = lastOp.files[i].ino => j <= i)
              => /\ NoRowAt(file_hashes, BatchFile(i))
                 /\ NoRowAt(node_mapping, BatchFile(i))
                 /\ EmittedAt({DELETE}, BatchFile(i).localPath) # {}
        /\ OutsideUntouched

\* the rows the batch inserted are the calls of enqueueJob, one row each
AllJobsVisible ==
    /\ Cardinality(NewRows) = Len(lastOp.emitted)
    /\ nextId = lastOp.before.nextId + Len(lastOp.emitted)
    /\ \A i \in Emitted :
          \E r \in NewRows : /\ r.eventType = lastOp.emitted[i].eventType
                              /\ r.localPath = lastOp.emitted[i].localPath
                              /\ r.remotePath = lastOp.emitted[i].remotePath
                              /\ r.status = PENDING

\* the purges of the batch are applied: of every fallback pair and of every
\* delete event that got a DELETE job
AllPurgesVisible ==
    /\ \A k \in 1..Len(lastOp.pairs) :
          ~lastOp.pairs[k].nodeMapping
             => /\ NoRowAt(file_hashes, lastOp.pairs[k].from)
                /\ NoRowAt(node_mapping, lastOp.pairs[k].from)
    /\ \A i \in DeleteEvents :
          EmittedAt({DELETE}, BatchFile(i).localPath) # {}
             => /\ NoRowAt(file_hashes, BatchFile(i))
                /\ NoRowAt(node_mapping, BatchFile(i))

\* nothing of the batch is in the store
NothingVisible ==
    /\ NewRows = {}
    /\ nextId = lastOp.before.nextId
    /\ file_hashes = lastOp.before.file_hashes
    /\ node_mapping = lastOp.before.node_mapping

\* C11: the jobs and the FileHash/NodeMapping purges of one watcher batch
\* become visible together: every state the store is left in after a batch
\* holds either all the rows and all the purges of the batch (it
\* committed) or none of them (it rolled back); no state holds a part.
C11_BatchVisibleTogether ==
    BatchDone =>
        \/ lastOp.result = "none" /\ AllJobsVisible /\ AllPurgesVisible
        \/ lastOp.result # "none" /\ NothingVisible

\* a committed batch of at least two jobs that purged a hash and a mapping
C11_Witness ==
    /\ BatchCommitted
    /\ Len(lastOp.emitted) >= 2
    /\ Cardinality(NewRows) >= 2
    /\ DOMAIN file_hashes # DOMAIN lastOp.before.file_hashes
    /\ DOMAIN node_mapping # DOMAIN lastOp.before.node_mapping

\* a batch that raised after it had enqueued a job and purged rows, and was
\* rolled back
C11_RolledBackReached ==
    /\ BatchDone
    /\ lastOp.result = "ConflictError"
    /\ Len(lastOp.emitted) >= 2
    /\ \E i \in DeleteEvents :
          /\ EmittedAt({DELETE}, BatchFile(i).localPath) # {}
          /\ BatchFile(i).localPath \in DOMAIN lastOp.before.node_mapping
    /\ NothingVisible

(***************************************************************************)
(* Claims about the retry policy, checked under SpecNetwork, SpecOther and *)
(* SpecRetry.  One task runs at a time, so a step that changes the row of  *)
(* the job and does not leave it SYNCED is the handling of a failure, and  *)
(* while the job is PENDING and no task runs, nextTid - 1 is the number of *)
(* times it has failed.                                                    *)
(***************************************************************************)
\* the step handles a failure of the job with row r, and leaves row r2
FailureHandled(r, r2) == r.id = r2.id /\ r2 # r /\ r2.status # SYNCED

\* the number of executions of the job that have ended, all in failure
FailedTimes(n) ==
    /\ tasks = {}
    /\ nextTid = n + 1
    /\ \A r \in sync_jobs : r.status # SYNCED

\* C12: a job whose failures are all classified NETWORK never reaches
\* status BLOCKED, however many times it fails: after each failure it is
\* PENDING with a new retryAt, later than the old one and than the clock.
C12_NetworkNeverBlocked ==
    [][/\ \A r2 \in sync_jobs' : r2.status # BLOCKED
       /\ \A r \in sync_jobs, r2 \in sync_jobs' :
             FailureHandled(r, r2)
                => /\ r2.status = PENDING
                   /\ r2.retryAt > now'
                   /\ r2.retryAt > r.retryAt
                   /\ r2.lastError \in NetworkMessages]_vars

\* the job has failed MaxAttempts times, more often than MAX_RETRIES, and
\* is PENDING
C12_Witness ==
    /\ FailedTimes(MaxAttempts)
    /\ MaxAttempts > MAX_RETRIES + 1
    /\ \E r \in sync_jobs : /\ r.status = PENDING
                            /\ r.retryAt > now
                            /\ r.lastError = "ECONNRESET"

\* C13: for a job failing only with NETWORK errors, after any number of
\* failures the scheduled delay retryAt - now is at most 256 s x 1.25 =
\* 320 s and the stored nRetries never exceeds 5.
C13_NetworkDelayCapped ==
    \A r \in sync_jobs :
        /\ r.nRetries <= 5
        /\ r.retryAt - now <= 320

\* the job has failed at least seven times; its last failure stored
\* nRetries = 5 and drew the longest delay
C13_Witness ==
    /\ \E n \in 7..MaxAttempts : FailedTimes(n)
    /\ \E r \in sync_jobs : /\ r.status = PENDING
                            /\ r.nRetries = 5
                            /\ r.retryAt - now = 320

\* the message every execution of the job fails with in SpecOther
OtherMessageOf(r) ==
    IF r.eventType = RENAME THEN "Node mapping not found" ELSE "quota exceeded"

C14_PendingAfterElevenReached ==
    /\ FailedTimes(MAX_RETRIES)
    /\ \E r \in sync_jobs : r.status = PENDING /\ r.nRetries = MAX_RETRIES

\* C15: in every reachable state, every sync_jobs row with status PENDING
\* has a non-null retryAt and an nRetries that does not exceed the maximum
\* retry count of the error category of its lastError (11 for OTHER and
\* REUPLOAD_NEEDED; NETWORK has none).
C15_PendingWithinMaxRetries ==
    \A r \in sync_jobs :
        r.status = PENDING
           => /\ r.retryAt \in Nat
              /\ (r.lastError # NULL
                    /\ categorizeError(r.lastError) \in {OTHER_CATEGORY, REUPLOAD_NEEDED})
                   => r.nRetries <= 11
              /\ r.lastError = NULL => r.nRetries = 0

\* a job that failed with nRetries = 10 in this run and is PENDING with
\* nRetries = 11, for an OTHER error and for a REUPLOAD_NEEDED error
C15_Witness ==
    /\ tasks = {}
    /\ nextTid > 1
    /\ \E r \in sync_jobs : /\ r.status = PENDING
                            /\ r.nRetries = 11
                            /\ r.retryAt > now
                            /\ r.retryAt >= 262144
                            /\ r.lastError \in {"quota exceeded", "reupload needed"}

\* the step of a task recorded last: what its await did and where it was
TaskStep(outcome, pcs) ==
    /\ lastOp.op = "task"
    /\ lastOp.outcome = outcome
    /\ lastOp.pc \in pcs

\* the task of the recorded step is suspended at pc and the row of its job
\* is as it was when the job was fetched
SuspendedAt(pc) ==
    \E task \in tasks :
        /\ task.job.id = lastOp.job
        /\ task.pc = pc
        /\ task.job \in sync_jobs

StartedTasks(before, after) ==
    {task \in after : \A old \in before : old.tid # task.tid}

\* C18: if the process terminates at any point and is restarted, then
\* after startup cleanup no job has status PROCESSING, every job that was
\* PENDING or PROCESSING before termination is PENDING with its other
\* fields as they were (none is lost), the SYNCED and BLOCKED jobs are as
\* they were, and no job that is SYNCED is ever executed again: every
\* execution starts from a row that is PENDING.
C18_RestartKeepsJobs ==
    [][/\ lastOp'.op = "restart"
          => /\ \A r2 \in sync_jobs' : r2.status # PROCESSING
             /\ \A r \in sync_jobs :
                   r.status \in {PENDING, PROCESSING}
                      => [r EXCEPT !.status = PENDING] \in sync_jobs'
             /\ \A r \in sync_jobs : r.status \in {SYNCED, BLOCKED} => r \in sync_jobs'
             /\ Cardinality(sync_jobs') = Cardinality(sync_jobs)
             /\ tasks' = {}
             /\ DOMAIN activeTasks' = {}
       /\ \A task \in StartedTasks(tasks, tasks') :
             \E r \in sync_jobs : /\ r.id = task.job.id
                                  /\ r.status = PENDING
                                  /\ task.job = r]_vars

\* the process terminated while a task awaited the CREATE of a recovery;
\* after the restart its job is PENDING as before
C18_Witness ==
    /\ lastOp.op = "restart"
    /\ \E task \in lastOp.running :
          /\ task.pc = "recreateCreate"
          /\ task.job \in lastOp.jobs
          /\ task.job \in sync_jobs
          /\ task.job.status = PENDING
    /\ tasks = {}

\* a restart found a row in status PROCESSING and made it PENDING
C18_ProcessingResetReached ==
    /\ lastOp.op = "restart"
    /\ \E r \in lastOp.jobs :
          /\ r.status = PROCESSING
          /\ [r EXCEPT !.status = PENDING] \in sync_jobs

\* the job is SYNCED and the poll loop has looked at the queue since
\* without starting a task
C18_SyncedNotRunAgainReached ==
    /\ lastOp.op = "processAvailableJobs"
    /\ lastOp.handed = <<>>
    /\ tasks = {}
    /\ \E r \in sync_jobs : r.status = SYNCED /\ r.retryAt <= now

\* row r of the job becomes SYNCED in the step that leaves row r2
BecomesSynced(r, r2) == r.id = r2.id /\ r.status # SYNCED /\ r2.status = SYNCED

\* the NodeMapping change of a completing job is in the table nm: the row
\* of localPath is gone for a DELETE, it names the node of the remote
\* CREATE for a CREATE, an UPDATE and a recovery, and it has moved from
\* oldLocalPath for a RENAME and a MOVE
MappingChangeApplied(nm, r, recovered) ==
    IF recovered \/ r.eventType \in {CREATE, UPDATE}
    THEN /\ r.localPath \in DOMAIN nm
         /\ nm[r.localPath].nodeUid \in {n.nodeUid : n \in RemoteNodes}
    ELSE IF r.eventType = DELETE
    THEN r.localPath \notin DOMAIN nm
    ELSE r.localPath \in DOMAIN nm /\ r.oldLocalPath \notin DOMAIN nm

C19_DeleteReached ==
    /\ TaskStep("returned", {"remote"})
    /\ node_mapping = EmptyMap
    /\ \E r \in sync_jobs : r.eventType = DELETE /\ r.status = SYNCED

(***************************************************************************)
(* Claims about the stored hashes, checked under SpecExec.                 *)
(***************************************************************************)
\* the contentHash enqueueJob was called with for the job of row r
CarriedHash(r) ==
    (CHOOSE params \in EnqueueParams :
        /\ params.eventType = r.eventType
        /\ params.localPath = r.localPath).contentHash

\* C20: whenever a CREATE or UPDATE job has completed successfully,
\* FileHash[localPath] equals the contentHash that job carried, in the
\* same state in which the job is SYNCED.
C20_HashStoredOnSuccess ==
    \A r \in sync_jobs :
        (r.status = SYNCED /\ r.eventType \in {CREATE, UPDATE})
           => /\ r.localPath \in DOMAIN file_hashes
              /\ file_hashes[r.localPath] = CarriedHash(r)

\* no step of the queue and the task pool writes file_hashes
FileHashesNeverWritten == [][file_hashes' = file_hashes]_vars

(***************************************************************************)
(* Claims about the signal bus, checked under SpecSignals.                 *)
(***************************************************************************)
\* C21: each signal row leads to at most one invocation of a listener,
\* whatever the listener does (returns, throws, ends the process), and a
\* row that a listener was invoked for is durably gone from the table.
C21_ConsumedAtMostOnce ==
    \A id \in DOMAIN invocations :
        /\ invocations[id] <= 1
        /\ \A row \in signals : row.id # id

\* the two halves of C21 on their own
C21_InvokedAtMostOnce == \A id \in DOMAIN invocations : invocations[id] <= 1

C21_RemovedWhenInvoked ==
    \A id \in DOMAIN invocations : \A row \in signals : row.id # id

\* C22: the polling loop never removes a row whose name has no listener,
\* whatever else it consumes; a row whose name has a listener, while the
\* interval is set, is eventually removed and its listener invoked.
NoListenerRowKept ==
    [][\A row \in signals : row.signal \notin listeners => row \in signals']_vars

ListenedRowConsumed ==
    \A id \in 1..MaxSignals :
        (\E row \in signals : row.id = id /\ row.signal \in listeners /\ pollingInterval)
            ~> (Invoked(invocations, id) > 0 /\ \A row \in signals : row.id # id)

C22_AccumulateUntilListener == NoListenerRowKept /\ ListenedRowConsumed

\* a poll consumed a signal and left the row of a name nobody listens to
C22_Witness ==
    /\ lastOp.op = "poll"
    /\ lastOp.emitted # <<>>
    /\ \E row \in lastOp.before : row.signal \notin lastOp.listeners /\ row \in signals

\* a row that waited through a poll without a listener is consumed by a
\* later poll: both rows were sent, the second poll emitted the first row
C22_ConsumedLaterReached ==
    /\ lastOp.op = "poll"
    /\ lastOp.emitted = <<1>>
    /\ DOMAIN invocations = {1, 2}

(***************************************************************************)
(* Claims about watch mode, checked under SpecWatch.                       *)
(***************************************************************************)
LoopRan == lastOp'.op = "processLoop" /\ lastOp'.heartbeat.sent

\* C23: a poll tick that sees the PAUSED flag starts no task and changes no
\* job, and sends the heartbeat; a tick that sees the flag cleared sends the
\* heartbeat and dispatches: with a free slot and a due job it starts a task.
C23_PausedTickSkipsDispatch ==
    [][LoopRan =>
          /\ lastOp'.heartbeat = [sent |-> TRUE, paused |-> PAUSED \in flags]
          /\ PAUSED \in flags =>
                /\ tasks' = tasks /\ activeTasks' = activeTasks /\ nextTid' = nextTid
                /\ sync_jobs' = sync_jobs
          /\ (PAUSED \notin flags /\ lastOp'.slots > 0 /\ lastOp'.due) =>
                nextTid' > nextTid]_vars

\* a paused tick went by with a job due and a slot free
C23_Witness ==
    /\ lastOp.op = "processLoop"
    /\ lastOp.heartbeat = [sent |-> TRUE, paused |-> TRUE]
    /\ lastOp.due /\ lastOp.slots > 0
    /\ tasks = {}

\* after the flag was cleared a tick dispatched the job
C23_DispatchedAgainReached ==
    /\ lastOp.op = "processLoop"
    /\ lastOp.heartbeat = [sent |-> TRUE, paused |-> FALSE]
    /\ lastOp.handed # <<>>
    /\ stop = "idle"

\* C24: once stop() has been called no task is spawned any more, whether or
\* not a timer was armed when it was called.
C24_NoSpawnAfterStop ==
    [][stop # "idle" => nextTid' = nextTid]_vars

\* stop() was called while the timer was armed and a job was due, and the
\* running task has finished since: a tick would have a job and a slot
C24_Witness ==
    /\ stop \in {"done", "timeout"}
    /\ ~timeoutId /\ ~running
    /\ DueJobs(sync_jobs, now) # {}
    /\ tasks = {}

\* C25: stop() completes, by the end of the tasks or by the timeout, even
\* when a task never finishes; the job of a task abandoned at the timeout
\* is neither SYNCED nor BLOCKED, and it is PENDING after the next startup.
StopCompletes == (stop = "waiting") ~> (stop # "waiting")

AbandonedJobsOpen ==
    stop = "timeout" =>
        \A task \in InFlight : \A r \in sync_jobs :
            r.id = task.job.id => r.status \notin {SYNCED, BLOCKED}

AbandonedJobsPendingAfterRestart ==
    [][(stop = "timeout" /\ lastOp'.op = "restart") =>
          \A task \in InFlight : \E r \in sync_jobs' :
              r.id = task.job.id /\ r.status = PENDING]_vars

C25_RestartedReached ==
    /\ lastOp.op = "restart"
    /\ lastOp.running # {}
    /\ \A r \in sync_jobs : r.status = PENDING

(***************************************************************************)
(* Claims about drainQueue, checked under SpecExec.                        *)
(***************************************************************************)
DrainTerminates == drain # "done" /\ drain' = "done"

C26_AllSyncedReached ==
    /\ drain = "done"
    /\ lastOp.op = "drainQueue"
    /\ sync_jobs # {}
    /\ \A r \in sync_jobs : r.status = SYNCED

\* no processJob invocation is running when drainQueue terminates
DrainedNoTaskRunning == [][DrainTerminates => tasks' = {}]_vars

(***************************************************************************)
(* Claims about one-shot sync, checked under SpecOneShot.                  *)
(***************************************************************************)
\* C27: when runOneShotSync returns, whatever the number of replayed
\* changes (zero included), the queue has been drained and the watcher
\* connection is closed.
C27_DrainedAndClosedOnReturn ==
    oneShot = "returned" => drain = "done" /\ ~watchman

\* the same for the runs that replayed at least one change
C27_DrainedAndClosedAfterChanges ==
    (oneShot = "returned" /\ totalChanges > 0) =>
        /\ drain = "done" /\ ~watchman
        /\ DOMAIN activeTasks = {} /\ DueJobs(sync_jobs, now) = {}

\* the steps are taken in the order connect, cleanup, replay, drain,
\* disconnect: the connection is open from connect to return, the drain
\* starts only after the replay
C27_StepsInOrder ==
    /\ oneShot \in {"connected", "cleaned", "replayed", "draining"} => watchman
    /\ oneShot \in {"start", "connected", "cleaned", "replayed"} => drain = "off"

\* a run with changes has returned
C27_ReturnedAfterChangesReached ==
    oneShot = "returned" /\ totalChanges > 0 /\ \E r \in sync_jobs : r.status = SYNCED

\* a run without changes has returned with a job of an earlier run due
C27_ReturnedWithoutChangesReached ==
    oneShot = "returned" /\ totalChanges = 0 /\ DueJobs(sync_jobs, now) # {}

(***************************************************************************)
(* Claims about dry runs, checked under SpecDry.                           *)
(***************************************************************************)
\* C28: with dryRun = true, handling a batch of file events and processing
\* a job leave sync_jobs, file_hashes and node_mapping as they were.
C28_DryRunChangesNothing ==
    [][dryRun => /\ sync_jobs' = sync_jobs
                 /\ file_hashes' = file_hashes
                 /\ node_mapping' = node_mapping]_vars

\* the part that holds: no step of a dry run touches sync_jobs, and the
\* steps of the executor touch no table
DryRunKeepsJobs == [][dryRun => sync_jobs' = sync_jobs /\ nextId' = nextId]_vars

DryRunExecutorChangesNothing ==
    [][(dryRun /\ lastOp'.op # "handleFileChangeBatch") =>
          /\ file_hashes' = file_hashes
          /\ node_mapping' = node_mapping]_vars

\* a dry-run batch with a delete in it has removed a stored hash
C28_HashPurgedReached ==
    /\ dryRun
    /\ lastOp.op = "handleFileChangeBatch"
    /\ \E p \in DOMAIN lastOp.before.file_hashes : p \notin DOMAIN file_hashes

\* a dry-run task has run to its end
C28_DryTaskDoneReached ==
    /\ dryRun
    /\ lastOp.op = "task" /\ lastOp.outcome = "returned"
    /\ tasks = {}

(***************************************************************************)
(* Claims about failing jobs, checked under SpecFail.                      *)
(***************************************************************************)
\* the row of job id
JobRow(rows, id) == CHOOSE r \in rows : r.id = id

\* the failure with message error was recorded on the row: the job is
\* rescheduled (PENDING, later retryAt, nRetries counted up or at the
\* network cap) or BLOCKED, with lastError set
Rescheduled(r, r2, error, t) ==
    /\ r2.status = PENDING
    /\ r2.lastError = error
    /\ r2.retryAt > t
    /\ r2.nRetries = r.nRetries + 1
          \/ (error \in NetworkMessages /\ r2.nRetries = NETWORK_RETRY_CAP_INDEX + 1)

Blocked(r2, error) == r2.status = BLOCKED /\ r2.lastError = error

\* the tasks that failed in this step: a remote call threw, or the task
\* failed before its first await (it is new and waits for its finally)
ThrewNow == lastOp'.op = "task" /\ lastOp'.outcome = "threw"

FailedAtStart == {task \in tasks' \ tasks : task.pc = "finally" /\ task.error # NULL}

C29_BlockedReached ==
    /\ lastOp.op = "task" /\ lastOp.outcome = "threw"
    /\ \E r \in sync_jobs : r.status = BLOCKED /\ r.lastError = lastOp.error

C29_RecoveryFailedReached ==
    /\ lastOp.op = "task" /\ lastOp.outcome = "threw"
    /\ lastOp.pc \in {"recreateDelete", "recreateCreate"}
    /\ \E r \in sync_jobs : r.status = PENDING /\ r.lastError = lastOp.error

C29_FailedAtStartReached ==
    /\ lastOp.op = "task" /\ lastOp.outcome = "settled"
    /\ \E r \in sync_jobs : r.eventType = MOVE /\ r.lastError = "Node mapping not found"

Relocating(task) == task.job.eventType \in {RENAME, MOVE}

Unmapped(task) == task.job.oldLocalPath \notin DOMAIN node_mapping

\* C30: a RENAME or MOVE job whose oldLocalPath has no NodeMapping makes no
\* remote call (it never waits for one), leaves NodeMapping as it is and
\* fails with "Node mapping not found", which counts as OTHER: the job is
\* rescheduled with nRetries + 1, and BLOCKED once nRetries has reached the
\* maximum.
C30_MissingMappingFails ==
    /\ [](\A task \in tasks : Relocating(task) => task.pc = "finally")
    /\ [][\A task \in tasks' \ tasks : (Relocating(task) /\ Unmapped(task)) =>
              /\ task.error = "Node mapping not found"
              /\ node_mapping' = node_mapping
              /\ LET r == JobRow(sync_jobs, task.job.id)
                     r2 == JobRow(sync_jobs', task.job.id)
                 IN  IF r.nRetries >= MAX_RETRIES
                     THEN Blocked(r2, task.error)
                     ELSE /\ Rescheduled(r, r2, task.error, now)
                          /\ r2.nRetries = r.nRetries + 1]_vars

\* a MOVE job has just failed at the lookup and was rescheduled
C30_Witness ==
    /\ lastOp.op = "processAvailableJobs"
    /\ \E task \in tasks :
          /\ task.job.eventType = MOVE
          /\ task.error = "Node mapping not found"
          /\ JobRow(sync_jobs, task.job.id).status = PENDING
          /\ JobRow(sync_jobs, task.job.id).nRetries = 1

\* a RENAME job that had used up its retries failed at the lookup again
C30_BlockedReached ==
    /\ lastOp.op = "processAvailableJobs"
    /\ \E task \in tasks :
          /\ task.job.eventType = RENAME
          /\ task.job.nRetries = MAX_RETRIES
          /\ JobRow(sync_jobs, task.job.id).status = BLOCKED

C31_NoneDueReached ==
    /\ lastOp.op = "getNextPendingJob"
    /\ lastOp.result = {}
    /\ \E o \in sync_jobs : o.status = PENDING /\ o.retryAt > now
    /\ \E o \in sync_jobs : o.status = PROCESSING /\ o.retryAt <= now

AllSynced == sync_jobs # {} /\ \A r \in sync_jobs : r.status = SYNCED

\* C32: once all jobs are SYNCED and no task is running, the remote tree is
\* the image of the local tree, whatever order the pool ran the jobs in.
C32_RemoteMirrorsLocal ==
    (AllSynced /\ tasks = {}) => remote = RemoteImage(localTree)

\* with one slot: the DELETE of /w/d, delayed by a failed attempt, ran after
\* the CREATE of /w/d/a; both jobs are SYNCED, the remote tree is empty and
\* the local tree holds both paths
C32_ParentDeletedAfterChildReached ==
    /\ syncConcurrency = 1
    /\ AllSynced /\ tasks = {}
    /\ {r.eventType : r \in sync_jobs} = {DELETE, CREATE}
    /\ localTree = {<<"d">>, <<"d", "a">>}
    /\ remote = {}

\* the trees do mirror each other after jobs of a parent and its child ran
C32_MirroredReached ==
    /\ AllSynced /\ tasks = {}
    /\ Cardinality(sync_jobs) = 2
    /\ localTree = {<<"d">>, <<"d", "a">>}
    /\ remote = RemoteImage(localTree)

Terminal == \A r \in sync_jobs : r.status \in {SYNCED, BLOCKED}

\* C33: under fair scheduling and without NETWORK failures the job
\* eventually is SYNCED or BLOCKED, and from then on stays so.
C33_EventuallyTerminal == <>[]Terminal

\* the job failed once more and was then executed successfully
C33_Witness ==
    /\ \E r \in sync_jobs : r.status = SYNCED
    /\ nextTid > 2
    /\ tasks = {}

\* the job used up its retries
C33_BlockedReached ==
    /\ \E r \in sync_jobs : r.status = BLOCKED
    /\ nextTid = MaxSpawns + 1
    /\ tasks = {}

\* this step ends a task whose job has the key of the enqueue made just
\* before it, that is, while the task was in flight
CompletesAfterEnqueue ==
    /\ ~dryRun
    /\ lastOp.op = "enqueueJob"
    /\ lastOp'.op = "task" /\ lastOp'.outcome \in {"returned", "threw"}
    /\ \E task \in tasks \ tasks' :
          /\ task.job.id = lastOp'.job
          /\ task.job.localPath = lastOp.params.localPath
          /\ task.job.remotePath = lastOp.params.remotePath

\* C34: a change enqueued for a key while a task for that key's job is in
\* flight is not lost: when the task has completed, the queue holds a PENDING
\* job for the key with the newer contentHash and nRetries = 0.
C34_NewerChangeKept ==
    [][CompletesAfterEnqueue =>
          \E r \in RowsOfKey(sync_jobs', lastOp.params) :
              /\ r.status = PENDING
              /\ r.contentHash = lastOp.params.contentHash
              /\ r.nRetries = 0]_vars

\* the same without the contentHash, which enqueueJob never stores
C34_PendingJobKept ==
    [][(CompletesAfterEnqueue /\ lastOp'.outcome = "returned") =>
          \E r \in RowsOfKey(sync_jobs', lastOp.params) : r.status = PENDING]_vars

RowsInFlight(rows) == {r \in rows : \E task \in tasks : task.job.id = r.id}

NeverCreates == {DELETE, RENAME, MOVE}

\* C36: a DELETE, RENAME or MOVE job never gets into deleteAndRecreateNode:
\* no task of such a job waits for the recovery's deleteNode or createNode,
\* and no such job ends with the recovery's setNodeMapping.
C36_NoRecreateForDelete ==
    /\ \A task \in tasks :
          task.job.eventType \in NeverCreates =>
              task.pc \notin {"recreateDelete", "recreateCreate"}
    /\ (lastOp.op = "task" /\ lastOp.pc = "recreateCreate" /\ lastOp.outcome = "returned")
          => JobRow(sync_jobs, lastOp.job).eventType \notin NeverCreates

\* the recovery of a DELETE job has run to its end: the job is SYNCED and
\* its localPath is mapped to the node createNode returned
C36_DeleteRecreatedReached ==
    /\ lastOp.op = "task" /\ lastOp.pc = "recreateCreate" /\ lastOp.outcome = "returned"
    /\ \E r \in sync_jobs :
          /\ r.id = lastOp.job
          /\ r.eventType = DELETE
          /\ r.status = SYNCED
          /\ r.localPath \in DOMAIN node_mapping

\* RENAME and MOVE jobs do not get there, because they fail before any
\* remote call
C36_RelocateNeverRecreates ==
    \A task \in tasks :
        task.job.eventType \in {RENAME, MOVE} =>
            task.pc \notin {"recreateDelete", "recreateCreate"}

\* the calls of enqueueJob that account for the delete event i: a DELETE of
\* its path, or a RENAME/MOVE from its path
JobsOfDelete(i) ==
    EmittedAt({DELETE}, BatchFile(i).localPath)
    \cup {k \in Emitted : /\ lastOp.emitted[k].eventType \in {RENAME, MOVE}
                          /\ lastOp.emitted[k].oldLocalPath = BatchFile(i).localPath}

\* the calls of enqueueJob that account for the create event i: a CREATE of
\* its path, or a RENAME/MOVE to its path
JobsOfCreate(i) == EmittedAt({CREATE, RENAME, MOVE}, BatchFile(i).localPath)

\* two events of the same kind carry the same inode number
SharedInode(events) ==
    \E i \in events, j \in events : i # j /\ lastOp.files[i].ino = lastOp.files[j].ino

\* C37: in every committed batch each delete event has exactly one DELETE
\* job or is the source of exactly one RENAME/MOVE job, and each create
\* event has exactly one CREATE job or is the target of exactly one
\* RENAME/MOVE job, also when events share an inode number.
C37_NoEventDropped ==
    BatchCommitted =>
        /\ \A i \in DeleteEvents : Cardinality(JobsOfDelete(i)) = 1
        /\ \A i \in CreateEvents : Cardinality(JobsOfCreate(i)) = 1

\* the same for the batches in which no two delete events and no two create
\* events share an inode number
C37_NoEventDroppedDistinctInodes ==
    (BatchCommitted /\ ~SharedInode(DeleteEvents) /\ ~SharedInode(CreateEvents)) =>
        /\ \A i \in DeleteEvents : Cardinality(JobsOfDelete(i)) = 1
        /\ \A i \in CreateEvents : Cardinality(JobsOfCreate(i)) = 1

\* a committed batch with two delete events of one inode number, one of
\* them without any job
C37_DeleteDroppedReached ==
    /\ BatchCommitted
    /\ \E i \in DeleteEvents, j \in DeleteEvents :
          /\ i # j
          /\ lastOp.files[i].ino = lastOp.files[j].ino
          /\ JobsOfDelete(i) = {}
          /\ JobsOfDelete(j) # {}

\* a committed batch with two create events of one inode number, one of
\* them without any job
C37_CreateDroppedReached ==
    /\ BatchCommitted
    /\ \E i \in CreateEvents, j \in CreateEvents :
          /\ i # j
          /\ lastOp.files[i].ino = lastOp.files[j].ino
          /\ JobsOfCreate(i) = {}
          /\ JobsOfCreate(j) # {}

\* scheduleRetry wrote the row r2 over the row r for a failure that is not
\* a network error: it is the only writer of nRetries
RetriedNonNetwork(r, r2) ==
    /\ r2.id = r.id
    /\ r2.nRetries # r.nRetries
    /\ ~isNetworkError(r2.lastError)

\* C38: scheduleRetry for a non-network failure of a job with n retries
\* stores nRetries = n + 1 and retryAt = now + d with d at least 1 s and
\* between 75% and 125% of RETRY_DELAYS_SEC[min(n, 10)]; status, eventType
\* and paths of the row stay as they were.
C38_RetryDelayOfSchedule ==
    [][\A r \in sync_jobs, r2 \in sync_jobs' :
          RetriedNonNetwork(r, r2) =>
              LET base == RETRY_DELAYS_SEC[Min(r.nRetries, 10) + 1]
                  d == r2.retryAt - now
              IN  /\ r2.nRetries = r.nRetries + 1
                  /\ d >= 1
                  /\ 3 * base <= 4 * d
                  /\ 4 * d <= 5 * base
                  /\ r2.status = r.status
                  /\ r2.eventType = r.eventType
                  /\ r2.localPath = r.localPath
                  /\ r2.remotePath = r.remotePath
                  /\ r2.oldLocalPath = r.oldLocalPath
                  /\ r2.oldRemotePath = r.oldRemotePath]_vars

\* a job that had failed ten times failed again with a quota error and was
\* rescheduled with the last delay of the table plus 25%; an earlier step
\* rescheduled it with the least delay, 1 s
C38_Witness ==
    /\ lastOp.op = "task" /\ lastOp.outcome = "threw"
    /\ \E r \in sync_jobs :
          /\ r.id = lastOp.job
          /\ r.status = PENDING
          /\ r.lastError = "quota exceeded"
          /\ r.nRetries = 11
          /\ r.retryAt - now = 604800 + 151200

\* the first failure of a job: nRetries 1 and the delay of 1 s that the
\* lower bound keeps
C38_FirstRetryReached ==
    /\ lastOp.op = "task" /\ lastOp.outcome = "threw"
    /\ \E r \in sync_jobs :
          /\ r.id = lastOp.job
          /\ r.status = PENDING
          /\ r.lastError \in {"quota exceeded", "reupload needed"}
          /\ r.nRetries = 1
          /\ r.retryAt - now = 1

\* the mapping change the claim describes, for the job of task: the row of
\* oldLocalPath is gone, localPath has its nodeUid and the parent given,
\* every other row is as it was
MappingMoved(task, parentNodeUid) ==
    LET job == task.job
    IN  /\ job.oldLocalPath \notin DOMAIN node_mapping'
        /\ job.localPath \in DOMAIN node_mapping'
        /\ node_mapping'[job.localPath].nodeUid = node_mapping[job.oldLocalPath].nodeUid
        /\ node_mapping'[job.localPath].parentNodeUid = parentNodeUid
        /\ \A p \in (DOMAIN node_mapping \cup DOMAIN node_mapping')
                        \ {job.oldLocalPath, job.localPath} :
              /\ p \in DOMAIN node_mapping
              /\ p \in DOMAIN node_mapping'
              /\ node_mapping'[p] = node_mapping[p]

MovedAsClaimed(task) ==
    MappingMoved(task, IF task.job.eventType = RENAME
                       THEN node_mapping[task.job.oldLocalPath].parentNodeUid
                       ELSE task.parent)

\* the job of task becomes SYNCED in this step
BecameSynced(task) ==
    /\ JobRow(sync_jobs, task.job.id).status # SYNCED
    /\ JobRow(sync_jobs', task.job.id).status = SYNCED

C39_RenamedReached ==
    /\ lastOp.op = "task" /\ lastOp.outcome = "returned" /\ lastOp.pc = "remote"
    /\ \E r \in sync_jobs :
          /\ r.id = lastOp.job
          /\ r.eventType = RENAME
          /\ r.status = SYNCED
          /\ r.oldLocalPath \notin DOMAIN node_mapping
          /\ r.localPath \in DOMAIN node_mapping
          /\ node_mapping[r.localPath].nodeUid = OldNode.nodeUid
          /\ node_mapping[r.localPath].parentNodeUid = OldNode.parentNodeUid

\* a RENAME job is SYNCED through deleteAndRecreateNode: the old path keeps
\* its row and the new path has the node createNode returned
C39_RecoveredReached ==
    /\ lastOp.op = "task" /\ lastOp.outcome = "returned" /\ lastOp.pc = "recreateCreate"
    /\ \E r \in sync_jobs :
          /\ r.id = lastOp.job
          /\ r.eventType = RENAME
          /\ r.status = SYNCED
          /\ r.oldLocalPath \in DOMAIN node_mapping
          /\ r.localPath \in DOMAIN node_mapping
          /\ node_mapping[r.localPath].nodeUid # OldNode.nodeUid

\* the old paths and the hash of a job, row or parameters of enqueueJob, are
\* as its type requires
OldPathsAsTyped(j) ==
    /\ j.eventType \in {RENAME, MOVE} =>
          j.oldLocalPath # NoPath /\ j.oldRemotePath # NoPath
    /\ j.eventType \notin {RENAME, MOVE} =>
          j.oldLocalPath = NoPath /\ j.oldRemotePath = NoPath
    /\ j.eventType = DELETE => j.contentHash = NULL

\* C40: every RENAME or MOVE row has oldLocalPath and oldRemotePath, every
\* row of another type has neither, and every DELETE row has no contentHash.
C40_RowsCarryOldPaths == \A r \in sync_jobs : OldPathsAsTyped(r)

\* the same for the parameters handleFileChangeBatch passes to enqueueJob
C40_ParametersCarryOldPaths ==
    BatchDone => \A i \in Emitted : OldPathsAsTyped(lastOp.emitted[i])

\* a committed batch enqueued a RENAME with both old paths, and the row it
\* inserted has neither
C40_RenameRowWithoutOldPathReached ==
    /\ BatchCommitted
    /\ \E i \in Emitted, r \in NewRows :
          /\ lastOp.emitted[i].eventType = RENAME
          /\ lastOp.emitted[i].oldLocalPath # NoPath
          /\ lastOp.emitted[i].oldRemotePath # NoPath
          /\ r.eventType = RENAME
          /\ r.localPath = lastOp.emitted[i].localPath
          /\ r.remotePath = lastOp.emitted[i].remotePath
          /\ r.oldLocalPath = NoPath
          /\ r.oldRemotePath = NoPath

====
